---- MODULE Spec2Model ----
(***************************************************************************)
(* Reliable file transfer over UDP: the sliding-window sender and the      *)
(* SACK receiver of part1 (variant A) and the Reno sender and receiver of  *)
(* part2 (variant B).                                                      *)
(*                                                                         *)
(* Bytes.  A bytes object is a record [src, off, len]: src = "file" is the *)
(* slice file_data[off : off+len], src = "lit" is the literal b'EOF'.  The *)
(* value of a byte is computed by FileByte, so the comparison              *)
(* data == b'EOF' is decided by content, and what is written to the sink   *)
(* is compared with the file slice by slice.                               *)
(*                                                                         *)
(* Time.  time.time() is not modelled in the variant A system: whether a   *)
(* window entry is older than rto when the timeout scan runs is a          *)
(* nondeterministic choice of the scan, and the grace and idle timers may  *)
(* fire whenever their guard on the recorded start time allows it.         *)
(***************************************************************************)
EXTENDS Integers, Sequences, FiniteSets, TLC

\* ------------------------------------------------------------- bounds
MaxFileSize == 3
MaxSws == 3
MaxNet == 2
MaxDupAcks == 4
RetxCap == 2
MaxRecvFile == 5
MaxRepeat == 3
MaxChunks == 5
MaxSample == 400
MaxSampleB == 8000
MaxCodecField == 3

\* ---------------------------------------------------- program constants
MSS == 1180
HEADER_SIZE == 20
fast_retransmit_threshold == 3
EOF_LEN == 3
MAX_PAYLOAD == 1180
INITIAL_SSTHRESH == 64000
EOF_WAIT_ROUNDS == 5

VARIABLES
    file_data,   \* data.txt: [size, eof_at]
    srv,         \* part1 ReliableUDPServer fields
    srv_main,    \* part1 ReliableUDPServer.run: position of the main thread
    cli,         \* part1 ReliableUDPClient fields
    cli_main,    \* part1 ReliableUDPClient.run: position of the client
    net_data,    \* datagrams in flight, server -> client
    net_ack,     \* datagrams in flight, client -> server
    fr,          \* history of duplicate ACKs and retransmissions of send_base
    variant,     \* receiver under test: "A" (part1) or "B" (part2)
    segs,        \* receiver under test: the datagrams the sender has cut
    cliB,        \* part2 ReliableUDPClient fields
    cliB_main,   \* part2 ReliableUDPClient.run: position of the client
    srvB,        \* part2 CongestionControlServer fields
    srvB_main,   \* part2 CongestionControlServer.run: position of the server
    netB_data,   \* part2 datagrams in flight, server to client
    netB_ack,    \* part2 datagrams in flight, client to server
    passB        \* history: the admission pass of the last server step

varsA == <<file_data, srv, srv_main, cli, cli_main, net_data, net_ack, fr>>
varsR == <<variant, segs>>
varsCliB == <<cliB, cliB_main>>
varsSrvB == <<srvB, srvB_main, netB_data, netB_ack, passB>>
vars == <<varsA, varsR, varsCliB, varsSrvB>>

\* ------------------------------------------------------------ helpers
Min(a, b) == IF a <= b THEN a ELSE b
Max(a, b) == IF a >= b THEN a ELSE b

EmptyMap == [x \in {} |-> 0]
MapPut(m, k, v) == [x \in (DOMAIN m) \cup {k} |-> IF x = k THEN v ELSE m[x]]
MapDel(m, K) == [x \in (DOMAIN m) \ K |-> m[x]]
MapGet(m, k) == IF k \in DOMAIN m THEN m[k] ELSE 0

RECURSIVE SortedSeq(_)
SortedSeq(S) ==
    IF S = {} THEN <<>>
    ELSE LET m == CHOOSE x \in S : \A y \in S : x <= y
         IN <<m>> \o SortedSeq(S \ {m})

\* ----------------------------------------------------------- bytes
NoEof == 0 - 1
EOF_BYTES == <<"E", "O", "F">>
EOF_MARKER == [src |-> "lit", off |-> 0, len |-> EOF_LEN]

\* file_data[i]: the file spells "EOF" at eof_at (if any), other bytes are "x"
FileByte(i) ==
    IF file_data.eof_at # NoEof /\ i >= file_data.eof_at /\ i < file_data.eof_at + EOF_LEN
    THEN EOF_BYTES[i - file_data.eof_at + 1]
    ELSE "x"

\* file_data[a : a + n]
FileSlice(a, n) == [src |-> "file", off |-> a, len |-> n]

BytesLen(d) == d.len

BytesOf(d) ==
    IF d.src = "lit" THEN EOF_BYTES
    ELSE [i \in 1..d.len |-> FileByte(d.off + i - 1)]

\* data == b'EOF'
IsEOF(d) == BytesLen(d) = EOF_LEN /\ BytesOf(d) = EOF_BYTES

\* the chunks written to the sink are exactly file_data[lo : hi], in order
RECURSIVE IsFileRange(_, _, _)
IsFileRange(chunks, lo, hi) ==
    IF chunks = <<>> THEN lo = hi
    ELSE /\ Head(chunks).src = "file"
         /\ Head(chunks).off = lo
         /\ IsFileRange(Tail(chunks), lo + Head(chunks).len, hi)

\* ------------------------------------------------------- wire codec
\* p1_server.create_packet: 4-octet seq, 16 zero octets, payload
create_packet(seq_num, data) ==
    [kind |-> "data", len |-> HEADER_SIZE + BytesLen(data), seq |-> seq_num, data |-> data]

\* p1_client.parse_packet
parse_packet(packet) ==
    IF packet.len < HEADER_SIZE THEN [ok |-> FALSE, seq |-> 0, data |-> EOF_MARKER]
    ELSE [ok |-> TRUE, seq |-> packet.seq, data |-> packet.data]

\* create_ack_packet that encodes the first block only
create_ack_packet_one_block(ack_num, sack_blocks) ==
    LET b == SubSeq(sack_blocks, 1, Min(1, Len(sack_blocks)))
        flat == [i \in 1..(2 * Len(b)) |-> b[(i + 1) \div 2][2 - (i % 2)]]
    IN [kind |-> "ack", len |-> 20, ack |-> ack_num,
        sack |-> [i \in 1..4 |-> IF i <= Len(flat) THEN flat[i] ELSE 0]]

\* p1_client.create_ack_packet: ack_num, then the first two blocks as four
\* 32-bit fields, zero padded to 16 octets
create_ack_packet(ack_num, sack_blocks) ==
    LET b == SubSeq(sack_blocks, 1, Min(2, Len(sack_blocks)))
        flat == [i \in 1..(2 * Len(b)) |-> b[(i + 1) \div 2][2 - (i % 2)]]
    IN [kind |-> "ack", len |-> 20, ack |-> ack_num,
        sack |-> [i \in 1..4 |-> IF i <= Len(flat) THEN flat[i] ELSE 0]]

\* p1_server.parse_ack
SackPairValid(sack_start, sack_end) == sack_start > 0 /\ sack_end > sack_start

parse_ack(packet) ==
    IF packet.len < 4 THEN [ok |-> FALSE, ack_num |-> 0, sack_blocks |-> <<>>]
    ELSE LET p1 == IF packet.len >= 20 /\ SackPairValid(packet.sack[1], packet.sack[2])
                   THEN << <<packet.sack[1], packet.sack[2]>> >> ELSE <<>>
             p2 == IF packet.len >= 20 /\ SackPairValid(packet.sack[3], packet.sack[4])
                   THEN << <<packet.sack[3], packet.sack[4]>> >> ELSE <<>>
         IN [ok |-> TRUE, ack_num |-> packet.ack, sack_blocks |-> p1 \o p2]

\* ------------------------------------------- part1 receiver (variant A)
ClientInit ==
    [recv_base |-> 0, recv_buffer |-> EmptyMap, sack_blocks |-> <<>>,
     transfer_complete |-> FALSE, eof_ack_num |-> 0, output |-> <<>>]

\* p1_client.write_data
write_data(c, data) ==
    IF BytesLen(data) = 0 THEN c ELSE [c EXCEPT !.output = Append(@, data)]

RECURSIVE SackFold(_, _, _, _, _)
SackFold(buf, seqs, current_start, current_end, acc) ==
    IF seqs = <<>> THEN Append(acc, <<current_start, current_end>>)
    ELSE LET seq == Head(seqs)
             data_len == BytesLen(buf[seq])
         IN IF seq = current_end
            THEN SackFold(buf, Tail(seqs), current_start, seq + data_len, acc)
            ELSE SackFold(buf, Tail(seqs), seq, seq + data_len,
                          Append(acc, <<current_start, current_end>>))

\* p1_client.update_sack_blocks
update_sack_blocks(c) ==
    IF DOMAIN c.recv_buffer = {} THEN [c EXCEPT !.sack_blocks = <<>>]
    ELSE LET sorted_seqs == SortedSeq(DOMAIN c.recv_buffer)
             first == Head(sorted_seqs)
             all == SackFold(c.recv_buffer, Tail(sorted_seqs), first,
                             first + BytesLen(c.recv_buffer[first]), <<>>)
         IN [c EXCEPT !.sack_blocks = SubSeq(all, 1, Min(2, Len(all)))]

\* EofHandshake that acknowledges the offset of the EOF, not the offset + 3
EofHandshakeAtOffset(c, seq_num) ==
    LET final_ack == seq_num
        ack_packet == create_ack_packet(final_ack, <<>>)
    IN [cli |-> [c EXCEPT !.transfer_complete = TRUE, !.eof_ack_num = final_ack],
        out |-> <<ack_packet, ack_packet, ack_packet>>,
        ret |-> TRUE]

\* the EOF handshake of handle_packet: 3 copies of the final ACK
EofHandshake(c, seq_num) ==
    LET final_ack == seq_num + EOF_LEN
        ack_packet == create_ack_packet(final_ack, <<>>)
    IN [cli |-> [c EXCEPT !.transfer_complete = TRUE, !.eof_ack_num = final_ack],
        out |-> <<ack_packet, ack_packet, ack_packet>>,
        ret |-> TRUE]

\* NormalAck that sends the ACK twice
NormalAckTwice(c) ==
    [cli |-> c, ret |-> FALSE,
     out |-> <<create_ack_packet(c.recv_base, c.sack_blocks),
               create_ack_packet(c.recv_base, c.sack_blocks)>>]

\* the ACK that ends handle_packet
NormalAck(c) ==
    [cli |-> c, out |-> <<create_ack_packet(c.recv_base, c.sack_blocks)>>, ret |-> FALSE]

\* AcceptInOrder that forgets to advance recv_base
AcceptInOrderNoAdvance(c, data) == write_data(c, data)

\* p1_client.handle_packet, lines 141-142: write the expected segment
AcceptInOrder(c, data) ==
    [write_data(c, data) EXCEPT !.recv_base = @ + BytesLen(data)]

\* Drain that leaves delivered segments in recv_buffer
RECURSIVE DrainKeepingEntries(_)
DrainKeepingEntries(c) ==
    IF c.recv_base \in DOMAIN c.recv_buffer
    THEN LET buffered_data == c.recv_buffer[c.recv_base]
         IN IF IsEOF(buffered_data)
            THEN [cli |-> [c EXCEPT !.recv_buffer = MapDel(@, {c.recv_base})], eof |-> TRUE]
            ELSE DrainKeepingEntries([write_data(c, buffered_data) EXCEPT
                            !.recv_base = @ + BytesLen(buffered_data)])
    ELSE [cli |-> c, eof |-> FALSE]

\* p1_client.handle_packet, lines 145-164: deliver what is buffered at recv_base
RECURSIVE Drain(_)
Drain(c) ==
    IF c.recv_base \in DOMAIN c.recv_buffer
    THEN LET buffered_data == c.recv_buffer[c.recv_base]
         IN IF IsEOF(buffered_data)
            THEN [cli |-> [c EXCEPT !.recv_buffer = MapDel(@, {c.recv_base})], eof |-> TRUE]
            ELSE Drain([write_data(c, buffered_data) EXCEPT
                            !.recv_buffer = MapDel(@, {c.recv_base}),
                            !.recv_base = @ + BytesLen(buffered_data)])
    ELSE [cli |-> c, eof |-> FALSE]

\* p1_client.handle_packet, lines 173-180: a segment above recv_base
BufferOutOfOrder(c, seq_num, data) ==
    IF seq_num \notin DOMAIN c.recv_buffer
    THEN update_sack_blocks([c EXCEPT !.recv_buffer = MapPut(@, seq_num, data)])
    ELSE c

\* p1_client.handle_packet: [cli, out, ret] = the fields after the call, the
\* datagrams sent, the value returned
handle_packet(c, seq_num, data) ==
    IF IsEOF(data)
    THEN IF seq_num = c.recv_base
         THEN EofHandshake(c, seq_num)
         ELSE NormalAck(update_sack_blocks(
                  [c EXCEPT !.recv_buffer = MapPut(@, seq_num, data)]))
    ELSE IF seq_num = c.recv_base
    THEN LET d == Drain(AcceptInOrder(c, data))
         IN IF d.eof THEN EofHandshake(d.cli, d.cli.recv_base)
            ELSE NormalAck(update_sack_blocks(d.cli))
    ELSE IF seq_num < c.recv_base
    THEN NormalAck(c)
    ELSE NormalAck(BufferOutOfOrder(c, seq_num, data))

\* --------------------------------------------- part1 sender (variant A)
ServerInit(sws, file_size) ==
    [sws |-> sws, send_base |-> 0, next_seq_num |-> 0, window |-> EmptyMap,
     sack_blocks |-> <<>>, dup_ack_count |-> EmptyMap, file_size |-> file_size,
     eof_sent |-> FALSE, eof_seq_num |-> 0, transfer_complete |-> FALSE]

PacketSizeIgnoringWindow(s, available_window) ==
    Min(MSS, s.file_size - s.next_seq_num)

\* p1_server.send_data_packets, line 114
PacketSize(s, available_window) ==
    Min(MSS, Min(s.file_size - s.next_seq_num, available_window))

\* p1_server.send_data_packets, lines 111-128
RECURSIVE SendLoop(_, _, _)
SendLoop(s, available_window, out) ==
    IF available_window > 0 /\ s.next_seq_num < s.file_size
    THEN LET packet_size == PacketSize(s, available_window)
             data == FileSlice(s.next_seq_num, packet_size)
             packet == create_packet(s.next_seq_num, data)
         IN SendLoop([s EXCEPT !.window = MapPut(@, s.next_seq_num, data),
                               !.next_seq_num = @ + packet_size],
                     available_window - packet_size, Append(out, packet))
    ELSE [srv |-> s, out |-> out]

\* SendEof that forgets to set eof_sent
SendEofUnflagged(s, out) ==
    IF s.next_seq_num >= s.file_size /\ ~s.eof_sent
    THEN LET eof_seq == s.file_size
         IN [srv |-> [s EXCEPT !.window = MapPut(@, eof_seq, EOF_MARKER),
                               !.eof_seq_num = eof_seq],
             out |-> Append(out, create_packet(eof_seq, EOF_MARKER))]
    ELSE [srv |-> s, out |-> out]

\* p1_server.send_data_packets, lines 130-140
SendEof(s, out) ==
    IF s.next_seq_num >= s.file_size /\ ~s.eof_sent
    THEN LET eof_seq == s.file_size
         IN [srv |-> [s EXCEPT !.window = MapPut(@, eof_seq, EOF_MARKER),
                               !.eof_sent = TRUE, !.eof_seq_num = eof_seq],
             out |-> Append(out, create_packet(eof_seq, EOF_MARKER))]
    ELSE [srv |-> s, out |-> out]

\* p1_server.send_data_packets: [srv, out]
send_data_packets(s) ==
    LET bytes_in_flight == s.next_seq_num - s.send_base
        available_window == s.sws - bytes_in_flight
    IN IF available_window <= 0 /\ ~(s.next_seq_num >= s.file_size /\ ~s.eof_sent)
       THEN [srv |-> s, out |-> <<>>]
       ELSE LET l == SendLoop(s, available_window, <<>>)
            IN SendEof(l.srv, l.out)

DupAckKept(d, ack_num) == d

\* p1_server.handle_ack, line 160
DupAckReset(d, ack_num) == MapPut(d, ack_num, 0)

\* FastRetransmit that counts an ACK below send_base as a duplicate
FastRetransmitOnStale(s, ack_num) ==
    IF ack_num <= s.send_base
    THEN LET s1 == [s EXCEPT !.dup_ack_count = MapPut(@, ack_num, MapGet(@, ack_num) + 1)]
         IN IF s1.dup_ack_count[ack_num] >= fast_retransmit_threshold
               /\ s1.send_base \in DOMAIN s1.window
            THEN [srv |-> [s1 EXCEPT !.dup_ack_count = DupAckReset(@, ack_num)],
                  out |-> <<create_packet(s1.send_base, s1.window[s1.send_base])>>,
                  fast |-> TRUE]
            ELSE [srv |-> s1, out |-> <<>>, fast |-> FALSE]
    ELSE [srv |-> s, out |-> <<>>, fast |-> FALSE]

\* p1_server.handle_ack, lines 149-161: [srv, out, fast]
FastRetransmit(s, ack_num) ==
    IF ack_num = s.send_base
    THEN LET s1 == [s EXCEPT !.dup_ack_count = MapPut(@, ack_num, MapGet(@, ack_num) + 1)]
         IN IF s1.dup_ack_count[ack_num] >= fast_retransmit_threshold
               /\ s1.send_base \in DOMAIN s1.window
            THEN [srv |-> [s1 EXCEPT !.dup_ack_count = DupAckReset(@, ack_num)],
                  out |-> <<create_packet(s1.send_base, s1.window[s1.send_base])>>,
                  fast |-> TRUE]
            ELSE [srv |-> s1, out |-> <<>>, fast |-> FALSE]
    ELSE [srv |-> s, out |-> <<>>, fast |-> FALSE]

EofAckedAtEofSeq(s) == s.send_base >= s.eof_seq_num

\* p1_server.handle_ack, line 186
EofAcked(s) == s.send_base > s.eof_seq_num

\* CumulativeAck that also removes the entry at the new send_base
CumulativeAckPruningBase(s, ack_num) ==
    IF ack_num > s.send_base
    THEN LET s1 == [s EXCEPT !.send_base = ack_num,
                             !.window = MapDel(@, {seq \in DOMAIN @ : seq <= ack_num}),
                             !.dup_ack_count = EmptyMap]
         IN IF s1.eof_sent /\ EofAcked(s1)
            THEN [s1 EXCEPT !.transfer_complete = TRUE]
            ELSE s1
    ELSE s

\* p1_server.handle_ack, lines 164-189
CumulativeAck(s, ack_num) ==
    IF ack_num > s.send_base
    THEN LET s1 == [s EXCEPT !.send_base = ack_num,
                             !.window = MapDel(@, {seq \in DOMAIN @ : seq < ack_num}),
                             !.dup_ack_count = EmptyMap]
         IN IF s1.eof_sent /\ EofAcked(s1)
            THEN [s1 EXCEPT !.transfer_complete = TRUE]
            ELSE s1
    ELSE s

\* p1_server.handle_ack: [srv, out, fast]
handle_ack(s, ack_num, sack_blocks) ==
    LET f == FastRetransmit([s EXCEPT !.sack_blocks = sack_blocks], ack_num)
    IN [srv |-> CumulativeAck(f.srv, ack_num), out |-> f.out, fast |-> f.fast]

\* p1_server.receive_thread, lines 219-223: one datagram parsed and handled
receive_ack(s, packet) ==
    LET a == parse_ack(packet)
    IN IF a.ok THEN handle_ack(s, a.ack_num, a.sack_blocks)
       ELSE [srv |-> s, out |-> <<>>, fast |-> FALSE]

\* p1_client.run, lines 246-254: one datagram parsed and handled
receive_packet(c, packet) ==
    LET p == parse_packet(packet)
    IN IF p.ok THEN handle_packet(c, p.seq, p.data)
       ELSE [cli |-> c, out |-> <<>>, ret |-> FALSE]

\* p1_server.handle_ack, lines 164-169: the offsets whose stored send time
\* gives the RTT sample when ack_num is handled (the stored send time is
\* the time of the latest transmission, lines 124, 158 and 211)
rtt_sample_seqs(s, ack_num) ==
    IF ack_num > s.send_base /\ s.send_base \in DOMAIN s.window
    THEN {s.send_base} ELSE {}

\* is_sacked that finds no segment covered
is_sacked_never(s, seq_num) == FALSE

\* p1_server.retransmit_timeout_packets, lines 201-205
is_sacked(s, seq_num) ==
    \E i \in 1..Len(s.sack_blocks) :
        seq_num >= s.sack_blocks[i][1] /\ seq_num < s.sack_blocks[i][2]

\* p1_server.retransmit_timeout_packets: the entries of `expired` are those
\* with current_time - send_time > rto; the result is the datagrams sent
\* (window keeps its keys and payloads, only the send times are refreshed)
retransmit_timeout_packets(s, expired) ==
    LET hit == {seq_num \in DOMAIN s.window : seq_num \in expired /\ ~is_sacked(s, seq_num)}
        order == SortedSeq(hit)
    IN [i \in 1..Len(order) |-> create_packet(order[i], s.window[order[i]])]

\* ------------------------------------------------ variant A: the system
Range(q) == {q[i] : i \in 1..Len(q)}

\* sendto on the datagram channel: each datagram sent is lost or joins the
\* datagrams in flight (at most MaxNet distinct ones; a datagram stays in
\* flight when it is delivered as one of several copies)
NetSend(net, out) ==
    {n \in SUBSET (net \cup Range(out)) : net \subseteq n /\ Cardinality(n) <= MaxNet}

\* The channel and the clock of a behaviour.  lossy: datagrams are dropped,
\* duplicated and reordered, and any timer may expire.  Not lossy: every
\* datagram is delivered once (in any order) and no timer expires before
\* the answer it waits for.
Send(lossy, net, out) == IF lossy THEN NetSend(net, out) ELSE {net \cup Range(out)}
Copies(lossy) == IF lossy THEN BOOLEAN ELSE {FALSE}
Expired(lossy, s) == IF lossy THEN SUBSET (DOMAIN s.window) ELSE {{}}

\* (file size, SWS, offset of "EOF" in the file): small files under every
\* small window, and a file just above one MSS under a window of more than
\* one MSS.  A file spells "EOF" in its last three bytes or nowhere; under
\* a window below three bytes no payload has three bytes, and the two
\* files behave alike.
Configs ==
    LET sized == {<<n, w>> : n \in 0..MaxFileSize, w \in 1..MaxSws}
                     \cup {<<MSS + MaxFileSize, MSS + MaxSws>>}
    IN {<<c[1], c[2], NoEof>> : c \in sized}
           \cup {<<c[1], c[2], c[1] - EOF_LEN>> :
                    c \in {d \in sized : d[1] >= EOF_LEN /\ d[2] >= EOF_LEN}}

FrInit == [dups |-> 0, fast |-> 0, retx |-> 0]

\* the variables of the other specifications, at rest
IdleR == variant = "none" /\ segs = {}
IdleCliB == cliB = <<>> /\ cliB_main = <<>>
IdleSrvB ==
    /\ srvB = <<>> /\ srvB_main = <<>> /\ netB_data = {} /\ netB_ack = {}
    /\ passB = <<>>

\* the state when the request has arrived and data.txt is loaded
InitA ==
    /\ IdleR /\ IdleCliB /\ IdleSrvB
    /\ \E cfg \in Configs :
        /\ file_data = [size |-> cfg[1], eof_at |-> cfg[3]]
        /\ srv = ServerInit(cfg[2], cfg[1])
        /\ srv_main = [pc |-> "send", eof_send_time |-> FALSE, eof_send_base |-> 0]
        /\ cli = ClientInit
        /\ cli_main = [pc |-> "recv"]
        /\ net_data = {}
        /\ net_ack = {}
        /\ fr = FrInit

\* run, line 270
ServerSendData(lossy) ==
    /\ srv_main.pc = "send"
    /\ LET r == send_data_packets(srv)
       IN /\ srv' = r.srv
          /\ net_data' \in Send(lossy, net_data, r.out)
    /\ srv_main' = [srv_main EXCEPT !.pc = "retx"]
    /\ UNCHANGED <<file_data, cli, cli_main, net_ack, fr>>
    /\ UNCHANGED <<varsR, varsCliB, varsSrvB>>

\* run, line 273
ServerTimeoutScan(lossy) ==
    /\ srv_main.pc = "retx"
    /\ \E expired \in Expired(lossy, srv) :
          LET out == retransmit_timeout_packets(srv, expired)
              base == \E i \in 1..Len(out) : out[i].seq = srv.send_base
          IN /\ net_data' \in Send(lossy, net_data, out)
             /\ fr' = IF base /\ fr.fast > 0
                      THEN [fr EXCEPT !.retx = Min(@ + 1, RetxCap)]
                      ELSE fr
    /\ srv_main' = [srv_main EXCEPT !.pc = "check"]
    /\ UNCHANGED <<file_data, srv, cli, cli_main, net_ack>>
    /\ UNCHANGED <<varsR, varsCliB, varsSrvB>>

\* run, lines 275-285 and the loop test of line 268: the grace period can
\* have elapsed only if eof_send_time was set in an earlier pass
\* (eof_send_time: the local is set; eof_send_base: history, the value of
\* send_base when it was set)
ServerLoopCheck(lossy) ==
    /\ srv_main.pc = "check"
    /\ \E grace_elapsed \in {b \in BOOLEAN : b => (lossy /\ srv_main.eof_send_time)} :
          srv_main' = [pc |-> IF grace_elapsed \/ srv.transfer_complete
                              THEN "finish" ELSE "send",
                       eof_send_time |-> srv_main.eof_send_time \/ srv.eof_sent,
                       eof_send_base |->
                           IF ~srv_main.eof_send_time /\ srv.eof_sent
                           THEN srv.send_base ELSE srv_main.eof_send_base]
    /\ UNCHANGED <<file_data, srv, cli, cli_main, net_data, net_ack, fr>>
    /\ UNCHANGED <<varsR, varsCliB, varsSrvB>>

\* run, lines 287-307
ServerShutdown ==
    /\ srv_main.pc = "finish"
    /\ srv_main' = [srv_main EXCEPT !.pc = "stopped"]
    /\ UNCHANGED <<file_data, srv, cli, cli_main, net_data, net_ack, fr>>
    /\ UNCHANGED <<varsR, varsCliB, varsSrvB>>

\* the history kept for the duplicate-ACK claims: since send_base last
\* advanced, dups = duplicate ACKs handled, fast = fast retransmissions, and
\* retx = retransmissions of the segment at send_base from the latest fast
\* retransmission on, that one included (counted up to RetxCap)
FrAfterAck(s, ack_num, fast) ==
    IF ack_num > s.send_base THEN FrInit
    ELSE IF ack_num = s.send_base
    THEN IF fast
         THEN [dups |-> fr.dups + 1, fast |-> fr.fast + 1, retx |-> 1]
         ELSE [fr EXCEPT !.dups = @ + 1]
    ELSE fr

\* receive_thread: one datagram received, parsed and handled
ServerReceiveAck(lossy) ==
    /\ srv_main.pc # "stopped"
    /\ \E packet \in net_ack, keep \in Copies(lossy) :
          LET a == parse_ack(packet)
              r == handle_ack(srv, a.ack_num, a.sack_blocks)
          IN /\ net_ack' = IF keep THEN net_ack ELSE net_ack \ {packet}
             /\ IF a.ok
                THEN /\ a.ack_num = srv.send_base => fr.dups < MaxDupAcks
                     /\ srv' = r.srv
                     /\ net_data' \in Send(lossy, net_data, r.out)
                     /\ fr' = FrAfterAck(srv, a.ack_num, r.fast)
                ELSE UNCHANGED <<srv, net_data, fr>>
    /\ UNCHANGED <<file_data, srv_main, cli, cli_main>>
    /\ UNCHANGED <<varsR, varsCliB, varsSrvB>>

\* p1_client.run, lines 244-246 and 252-265: one datagram received
ClientReceive(lossy) ==
    /\ cli_main.pc = "recv"
    /\ \E packet \in net_data, keep \in Copies(lossy) :
          LET p == parse_packet(packet)
              r == handle_packet(cli, p.seq, p.data)
          IN /\ net_data' = IF keep THEN net_data ELSE net_data \ {packet}
             /\ IF p.ok
                THEN /\ cli' = r.cli
                     /\ net_ack' \in Send(lossy, net_ack, r.out)
                     /\ cli_main' = [pc |-> IF r.ret THEN "burst" ELSE "recv"]
                ELSE UNCHANGED <<cli, net_ack, cli_main>>
    /\ UNCHANGED <<file_data, srv, srv_main, fr>>
    /\ UNCHANGED <<varsR, varsCliB, varsSrvB>>

\* p1_client.send_request, line 224, and run, lines 267-271: nothing arrived
ClientIdleTimeout ==
    /\ cli_main.pc = "recv"
    /\ cli_main' = [pc |-> "closed"]
    /\ UNCHANGED <<file_data, srv, srv_main, cli, net_data, net_ack, fr>>
    /\ UNCHANGED <<varsR, varsCliB, varsSrvB>>

\* p1_client.run, lines 279-289
ClientFinalBurst(lossy) ==
    /\ cli_main.pc = "burst"
    /\ LET ack_packet == create_ack_packet(cli.eof_ack_num, <<>>)
       IN net_ack' \in Send(lossy, net_ack, [i \in 1..5 |-> ack_packet])
    /\ cli_main' = [pc |-> "closed"]
    /\ UNCHANGED <<file_data, srv, srv_main, cli, net_data, fr>>
    /\ UNCHANGED <<varsR, varsCliB, varsSrvB>>

NextA ==
    \/ ServerSendData(TRUE)
    \/ ServerTimeoutScan(TRUE)
    \/ ServerLoopCheck(TRUE)
    \/ ServerShutdown
    \/ ServerReceiveAck(TRUE)
    \/ ClientReceive(TRUE)
    \/ ClientIdleTimeout
    \/ ClientFinalBurst(TRUE)

Spec ==
    /\ InitA
    /\ [][NextA]_vars

\* The behaviours over a channel that delivers every datagram, with every
\* thread scheduled again and again.
NextReliable ==
    \/ ServerSendData(FALSE)
    \/ ServerTimeoutScan(FALSE)
    \/ ServerLoopCheck(FALSE)
    \/ ServerShutdown
    \/ ServerReceiveAck(FALSE)
    \/ ClientReceive(FALSE)
    \/ ClientFinalBurst(FALSE)

FairSpec ==
    /\ InitA
    /\ [][NextReliable]_vars
    /\ WF_vars(ServerSendData(FALSE))
    /\ WF_vars(ServerTimeoutScan(FALSE))
    /\ WF_vars(ServerLoopCheck(FALSE))
    /\ WF_vars(ServerShutdown)
    /\ WF_vars(ServerReceiveAck(FALSE))
    /\ WF_vars(ClientReceive(FALSE))
    /\ WF_vars(ClientFinalBurst(FALSE))

\* The behaviours in which no ACK reaches the sender: every datagram the
\* receiver sends is lost, data datagrams are lost or delivered.
\* p1_client.run, lines 244-265, the ACKs lost
ClientReceiveAckLost ==
    /\ ClientReceive(TRUE)
    /\ net_ack' = net_ack

\* p1_client.run, lines 279-289, the five ACKs lost
ClientFinalBurstAckLost ==
    /\ ClientFinalBurst(TRUE)
    /\ net_ack' = net_ack

\* p1_client.run, lines 267-271: five seconds with nothing to receive
ClientIdleSilent ==
    /\ net_data = {}
    /\ ClientIdleTimeout

\* p1_server.run, lines 280-283: the grace period is over
ServerGraceExpiry ==
    /\ srv_main.eof_send_time
    /\ ~srv.transfer_complete
    /\ ServerLoopCheck(TRUE)
    /\ srv_main'.pc = "finish"

\* p1_server.run, lines 268-307: the main thread
ServerMainStep ==
    \/ ServerSendData(TRUE)
    \/ ServerTimeoutScan(TRUE)
    \/ ServerLoopCheck(TRUE)
    \/ ServerShutdown

\* p1_client.run, lines 239-289: the receive loop with every ACK lost
ClientMainStep ==
    \/ ClientReceiveAckLost
    \/ ClientIdleSilent
    \/ ClientFinalBurstAckLost

NextAckLoss ==
    \/ ServerMainStep
    \/ ClientMainStep

\* Both threads are scheduled again and again and the clock advances: a
\* grace period that has started ends, and a receiver with nothing to
\* receive reaches its idle timeout.
AckLossFairSpec ==
    /\ InitA
    /\ [][NextAckLoss]_vars
    /\ WF_vars(ServerMainStep)
    /\ SF_vars(ServerGraceExpiry)
    /\ WF_vars(ClientMainStep)

\* ------------------------------------------- part2 receiver (variant B)
ClientBInit == [next_expected_seq |-> 0, recv_buffer |-> EmptyMap, output |-> <<>>]

\* p2_server.create_packet / p2_server.send_eof
create_packetB(seq_num, timestamp, data) ==
    [kind |-> "data", len |-> HEADER_SIZE + BytesLen(data), seq |-> seq_num,
     timestamp |-> timestamp, data |-> data]

\* p2_client.create_ack
create_ack(ack_num, timestamp_echo) ==
    [kind |-> "ack", len |-> HEADER_SIZE, ack |-> ack_num, timestamp_echo |-> timestamp_echo]

\* p2_client.write_data
write_dataB(c, data) ==
    IF BytesLen(data) = 0 THEN c ELSE [c EXCEPT !.output = Append(@, data)]

\* p2_client.process_buffered_packets
RECURSIVE process_buffered_packets(_)
process_buffered_packets(c) ==
    IF c.next_expected_seq \in DOMAIN c.recv_buffer
    THEN LET data == c.recv_buffer[c.next_expected_seq]
         IN process_buffered_packets(
                [write_dataB(c, data) EXCEPT
                     !.recv_buffer = MapDel(@, {c.next_expected_seq}),
                     !.next_expected_seq = @ + BytesLen(data)])
    ELSE c

\* p2_client.handle_packet: [cli, out, ret]
handle_packetB(c, seq, timestamp, data) ==
    IF IsEOF(data)
    THEN [cli |-> c, out |-> <<create_ack(seq, timestamp)>>, ret |-> TRUE]
    ELSE LET c1 ==
                 IF seq = c.next_expected_seq
                 THEN process_buffered_packets(
                          [write_dataB(c, data) EXCEPT
                               !.next_expected_seq = @ + BytesLen(data)])
                 ELSE IF seq > c.next_expected_seq /\ seq \notin DOMAIN c.recv_buffer
                 THEN [c EXCEPT !.recv_buffer = MapPut(@, seq, data)]
                 ELSE c
         IN [cli |-> c1, out |-> <<create_ack(c1.next_expected_seq, timestamp)>>,
             ret |-> FALSE]

\* ------------------------------------ the receivers under any arrival
\* The sender cuts the file once into consecutive segments (next_seq_num
\* only grows, a retransmission resends the stored payload) and sends the
\* EOF marker at offset file_size; the datagrams reach the receiver in any
\* order, any number of times, until the receiver stops.
Segmentation(size, cuts) ==
    LET marks == cuts \cup {0, size}
    IN {[seq |-> a, data |-> FileSlice(a, b - a)] :
           <<a, b>> \in {m \in marks \X marks :
                            m[1] < m[2] /\ ~\E x \in marks : m[1] < x /\ x < m[2]}}
       \cup {[seq |-> size, data |-> EOF_MARKER]}

IdleA ==
    /\ srv = <<>> /\ srv_main = <<>> /\ cli_main = <<>>
    /\ net_data = {} /\ net_ack = {} /\ fr = <<>>

InitRecv ==
    /\ IdleA /\ IdleSrvB
    /\ variant \in {"A", "B"}
    /\ \E size \in 0..MaxRecvFile :
          /\ file_data \in {[size |-> size, eof_at |-> NoEof]}
                 \cup (IF size >= EOF_LEN
                       THEN {[size |-> size, eof_at |-> size - EOF_LEN]} ELSE {})
          /\ \E cuts \in SUBSET (1..(size - 1)) : segs = Segmentation(size, cuts)
    /\ cli = ClientInit
    /\ cliB = ClientBInit
    /\ cliB_main = [pc |-> "recv"]

\* p1_client.run: a datagram arrives while the transfer is not complete
DeliverA ==
    /\ variant = "A"
    /\ ~cli.transfer_complete
    /\ \E p \in segs : cli' = handle_packet(cli, p.seq, p.data).cli
    /\ UNCHANGED <<file_data, srv, srv_main, cli_main, net_data, net_ack, fr>>
    /\ UNCHANGED <<varsR, varsCliB, varsSrvB>>

\* p2_client.run: a datagram arrives while the client has not stopped
DeliverB ==
    /\ variant = "B"
    /\ cliB_main.pc = "recv"
    /\ \E p \in segs :
          LET r == handle_packetB(cliB, p.seq, 1, p.data)
          IN /\ cliB' = r.cli
             /\ cliB_main' = [pc |-> IF r.ret THEN "closed" ELSE "recv"]
    /\ UNCHANGED <<varsA, varsR, varsSrvB>>

NextRecv == DeliverA \/ DeliverB

SpecRecv == InitRecv /\ [][NextRecv]_vars

\* ------------------------------------------------ connection set-up
\* send_request of the two receivers followed by the handling of the first
\* packet in run.  cli_main (variant A) or cliB_main (variant B) holds the
\* position in send_request: attempt = attempts ended, requests = request
\* octets sent, handled = calls of handle_packet, acks = ACKs sent, and the
\* history arrived / served = the attempt in which a datagram first
\* arrived from any address / from the server address (0 = none).
max_retries == 5

ConnInit ==
    [pc |-> "request", attempt |-> 0, requests |-> 0, handled |-> 0, acks |-> 0,
     exit_code |-> 0, arrived |-> 0, served |-> 0,
     first_packet |-> [seq |-> 0, data |-> EOF_MARKER]]

\* the loop of send_request goes to its next attempt; after the last one
\* p1_client raises (line 224, uncaught in run: exit status 1) and
\* p2_client calls sys.exit(1)
EndAttemptOneMore(c) ==
    IF c.attempt + 1 = max_retries + 1
    THEN [c EXCEPT !.attempt = @ + 1, !.pc = "failed", !.exit_code = 1]
    ELSE [c EXCEPT !.attempt = @ + 1, !.pc = "request"]

EndAttempt(c) ==
    IF c.attempt + 1 = max_retries
    THEN [c EXCEPT !.attempt = @ + 1, !.pc = "failed", !.exit_code = 1]
    ELSE [c EXCEPT !.attempt = @ + 1, !.pc = "request"]

\* the history of the datagram that arrives in the current attempt
Arrival(c, from_server) ==
    [c EXCEPT !.arrived = IF @ = 0 THEN c.attempt + 1 ELSE @,
              !.served = IF @ = 0 /\ from_server THEN c.attempt + 1 ELSE @]

\* send_request returns the packet
Connected(c, p) == [c EXCEPT !.pc = "first", !.first_packet = p]

InitConnect ==
    /\ srv = <<>> /\ srv_main = <<>> /\ net_data = {} /\ net_ack = {} /\ fr = <<>>
    /\ IdleSrvB
    /\ variant \in {"A", "B"}
    /\ \E size \in 0..MaxRecvFile :
          /\ file_data \in {[size |-> size, eof_at |-> NoEof]}
                 \cup (IF size >= EOF_LEN
                       THEN {[size |-> size, eof_at |-> size - EOF_LEN]} ELSE {})
          /\ \E cuts \in SUBSET (1..(size - 1)) : segs = Segmentation(size, cuts)
    /\ cli = ClientInit
    /\ cliB = ClientBInit
    /\ cli_main = (IF variant = "A" THEN ConnInit ELSE <<>>)
    /\ cliB_main = (IF variant = "B" THEN ConnInit ELSE <<>>)

\* p1_client.send_request, lines 199-202: the request octet is sent
SendRequestA ==
    /\ variant = "A"
    /\ cli_main.pc = "request"
    /\ cli_main' = [cli_main EXCEPT !.pc = "wait", !.requests = @ + 1]
    /\ UNCHANGED <<file_data, srv, srv_main, cli, net_data, net_ack, fr>>
    /\ UNCHANGED <<varsR, varsCliB, varsSrvB>>

\* p1_client.send_request, lines 213-215: nothing arrived in two seconds
RequestTimeoutA ==
    /\ variant = "A"
    /\ cli_main.pc = "wait"
    /\ cli_main' = EndAttempt(cli_main)
    /\ UNCHANGED <<file_data, srv, srv_main, cli, net_data, net_ack, fr>>
    /\ UNCHANGED <<varsR, varsCliB, varsSrvB>>

\* p1_client.send_request, lines 205-211: a datagram arrived, from any
\* address
RequestReplyA ==
    /\ variant = "A"
    /\ cli_main.pc = "wait"
    /\ \E p \in segs, from_server \in BOOLEAN :
          cli_main' = Connected(Arrival(cli_main, from_server), p)
    /\ UNCHANGED <<file_data, srv, srv_main, cli, net_data, net_ack, fr>>
    /\ UNCHANGED <<varsR, varsCliB, varsSrvB>>

\* p1_client.run, lines 238-247: the first packet is handled
FirstPacketA ==
    /\ variant = "A"
    /\ cli_main.pc = "first"
    /\ LET r == handle_packet(cli, cli_main.first_packet.seq,
                              cli_main.first_packet.data)
       IN /\ cli' = r.cli
          /\ cli_main' = [cli_main EXCEPT
                              !.pc = IF r.cli.transfer_complete
                                     THEN "burst" ELSE "recv",
                              !.handled = @ + 1,
                              !.acks = @ + Len(r.out)]
    /\ UNCHANGED <<file_data, srv, srv_main, net_data, net_ack, fr>>
    /\ UNCHANGED <<varsR, varsCliB, varsSrvB>>

\* p2_client.send_request, lines 64-66
SendRequestB ==
    /\ variant = "B"
    /\ cliB_main.pc = "request"
    /\ cliB_main' = [cliB_main EXCEPT !.pc = "wait", !.requests = @ + 1]
    /\ UNCHANGED <<varsA, varsR, cliB, varsSrvB>>

\* p2_client.send_request, lines 78-80
RequestTimeoutB ==
    /\ variant = "B"
    /\ cliB_main.pc = "wait"
    /\ cliB_main' = EndAttempt(cliB_main)
    /\ UNCHANGED <<varsA, varsR, cliB, varsSrvB>>

\* p2_client.send_request, lines 69-77: a datagram arrived; one from
\* another address is dropped and the loop goes to its next attempt
RequestReplyB ==
    /\ variant = "B"
    /\ cliB_main.pc = "wait"
    /\ \E p \in segs, from_server \in BOOLEAN :
          cliB_main' = IF from_server
                       THEN Connected(Arrival(cliB_main, from_server), p)
                       ELSE EndAttempt(Arrival(cliB_main, from_server))
    /\ UNCHANGED <<varsA, varsR, cliB, varsSrvB>>

\* p2_client.run, lines 144-159: the first packet is handled
FirstPacketB ==
    /\ variant = "B"
    /\ cliB_main.pc = "first"
    /\ LET r == handle_packetB(cliB, cliB_main.first_packet.seq, 1,
                               cliB_main.first_packet.data)
       IN /\ cliB' = r.cli
          /\ cliB_main' = [cliB_main EXCEPT
                               !.pc = IF r.ret THEN "closed" ELSE "recv",
                               !.handled = @ + 1,
                               !.acks = @ + Len(r.out)]
    /\ UNCHANGED <<varsA, varsR, varsSrvB>>

NextConnect ==
    \/ SendRequestA
    \/ RequestTimeoutA
    \/ RequestReplyA
    \/ FirstPacketA
    \/ SendRequestB
    \/ RequestTimeoutB
    \/ RequestReplyB
    \/ FirstPacketB

SpecConnect == InitConnect /\ [][NextConnect]_vars

\* --------------------------------------------- part2 sender (variant B)
\* cwnd and ssthresh are Python floats.  The model holds them as integers
\* and rounds every division down, so the model's cwnd is the code's cwnd
\* whenever the divisions are exact and int(cwnd) otherwise up to the
\* accumulated fractions.
ServerBInit(file_size) ==
    [file_size |-> file_size, next_seq_to_prepare |-> 0,
     send_buffer |-> EmptyMap, in_flight |-> EmptyMap,
     LAR |-> 0, LFS |-> 0,
     cwnd |-> MSS, ssthresh |-> INITIAL_SSTHRESH, in_slow_start |-> TRUE,
     in_fast_recovery |-> FALSE, recovery_point |-> 0,
     last_ack |-> 0, dup_ack_count |-> 0]

\* p2_server.parse_ack
parse_ackB(packet) ==
    IF packet.len < HEADER_SIZE THEN [ok |-> FALSE, ack_num |-> 0, timestamp_echo |-> 0]
    ELSE [ok |-> TRUE, ack_num |-> packet.ack, timestamp_echo |-> packet.timestamp_echo]

\* p2_client.parse_packet
parse_packetB(packet) ==
    IF packet.len < HEADER_SIZE
    THEN [ok |-> FALSE, seq |-> 0, timestamp |-> 0, data |-> FileSlice(0, 0)]
    ELSE [ok |-> TRUE, seq |-> packet.seq, timestamp |-> packet.timestamp,
          data |-> packet.data]

\* p2_server.ensure_buffer_filled: the file handle is read in order, so its
\* position is next_seq_to_prepare
RECURSIVE FillLoop(_, _)
FillLoop(s, buffer_target) ==
    IF s.next_seq_to_prepare < buffer_target
    THEN LET chunk == FileSlice(s.next_seq_to_prepare,
                                Min(MAX_PAYLOAD, s.file_size - s.next_seq_to_prepare))
         IN IF BytesLen(chunk) = 0 THEN s
            ELSE FillLoop([s EXCEPT
                               !.send_buffer = MapPut(@, s.next_seq_to_prepare, chunk),
                               !.next_seq_to_prepare = @ + BytesLen(chunk)],
                          buffer_target)
    ELSE s

ensure_buffer_filled(s) == FillLoop(s, Min(s.LAR + s.cwnd * 4, s.file_size))

\* p2_server.clean_old_packets
clean_old_packets(s) ==
    LET cleanup_threshold == Max(0, s.LAR - s.cwnd * 2)
    IN [s EXCEPT !.send_buffer =
            MapDel(@, {seq \in DOMAIN s.send_buffer : seq < cleanup_threshold})]

\* p2_server.send_packet: [srv, out]; send times are not kept (see Time)
send_packet(s, seq, data) ==
    [srv |-> [s EXCEPT !.in_flight =
                 IF seq \notin DOMAIN s.in_flight
                 THEN MapPut(@, seq, [retx_count |-> 0])
                 ELSE MapPut(@, seq, [retx_count |-> s.in_flight[seq].retx_count + 1])],
     out |-> <<create_packetB(seq, 1, data)>>]

\* p2_server.send_packets_in_window: [srv, out, admitted]; admitted lists,
\* for each segment sent, its size with the usable window cwnd - (LFS - LAR)
\* and the rest of the file at the time it was sent
RECURSIVE WindowLoop(_, _, _, _)
WindowLoop(s, effective_window, out, admitted) ==
    IF s.LFS - s.LAR < effective_window /\ s.LFS < s.next_seq_to_prepare
    THEN LET packet_data == s.send_buffer[s.LFS]
             r == send_packet(s, s.LFS, packet_data)
         IN WindowLoop([r.srv EXCEPT !.LFS = @ + BytesLen(packet_data)],
                       effective_window, out \o r.out,
                       Append(admitted,
                              [size |-> BytesLen(packet_data),
                               usable |-> s.cwnd - (s.LFS - s.LAR),
                               remaining |-> s.file_size - s.LFS]))
    ELSE [srv |-> s, out |-> out, admitted |-> admitted]

send_packets_in_window(s) == WindowLoop(s, s.cwnd, <<>>, <<>>)

\* increase_cwnd that shrinks the window in congestion avoidance
increase_cwnd_shrinking(s, bytes_acked) ==
    IF s.in_slow_start
    THEN [s EXCEPT !.cwnd = @ + bytes_acked,
                   !.in_slow_start = ~(s.cwnd + bytes_acked >= s.ssthresh)]
    ELSE [s EXCEPT !.cwnd = Max(MSS, @ - 1)]

\* increase_cwnd that stays in slow start
increase_cwnd_no_exit(s, bytes_acked) ==
    IF s.in_slow_start
    THEN [s EXCEPT !.cwnd = @ + bytes_acked]
    ELSE [s EXCEPT !.cwnd = @ + (MSS * bytes_acked) \div s.cwnd]

\* p2_server.increase_cwnd
increase_cwnd(s, bytes_acked) ==
    IF s.in_slow_start
    THEN [s EXCEPT !.cwnd = @ + bytes_acked,
                   !.in_slow_start = ~(s.cwnd + bytes_acked >= s.ssthresh)]
    ELSE [s EXCEPT !.cwnd = @ + (MSS * bytes_acked) \div s.cwnd]

NoPass == [ran |-> FALSE, admitted |-> <<>>]

\* LossSsthresh without the floor of two segments
LossSsthreshNoFloor(s) == s.cwnd \div 2

\* p2_server.handle_ack, line 228, and handle_timeout, line 264
LossSsthresh(s) == Max(s.cwnd \div 2, 2 * MSS)

\* FastRecoveryCwnd without the three segments of inflation
FastRecoveryCwndNoInflation(ssthresh) == ssthresh

\* p2_server.handle_ack, line 229
FastRecoveryCwnd(ssthresh) == ssthresh + 3 * MSS

\* p2_server.handle_ack, lines 182-213: a new ACK
NewAck(s, ack_num) ==
    LET bytes_acked == ack_num - s.last_ack
        s1 == IF s.in_fast_recovery
              THEN [s EXCEPT !.in_fast_recovery = FALSE, !.cwnd = s.ssthresh]
              ELSE s
        s2 == increase_cwnd(s1, bytes_acked)
        s3 == [s2 EXCEPT !.LAR = ack_num, !.last_ack = ack_num, !.dup_ack_count = 0,
                         !.in_flight = MapDel(@, {seq \in DOMAIN s2.in_flight : seq < ack_num})]
        r == send_packets_in_window(ensure_buffer_filled(clean_old_packets(s3)))
    IN [srv |-> r.srv, out |-> r.out, pass |-> [ran |-> TRUE, admitted |-> r.admitted]]

\* p2_server.handle_ack, lines 215-240: a duplicate ACK
DuplicateAck(s, ack_num) ==
    LET s1 == [s EXCEPT !.dup_ack_count = @ + 1]
    IN IF s1.in_fast_recovery
       THEN LET r == send_packets_in_window([s1 EXCEPT !.cwnd = @ + MSS])
            IN [srv |-> r.srv, out |-> r.out,
                pass |-> [ran |-> TRUE, admitted |-> r.admitted]]
       ELSE IF s1.dup_ack_count = 3
       THEN LET ssthresh == LossSsthresh(s1)
                s2 == [s1 EXCEPT !.ssthresh = ssthresh, !.cwnd = FastRecoveryCwnd(ssthresh),
                                 !.in_fast_recovery = TRUE, !.recovery_point = s1.LFS,
                                 !.in_slow_start = FALSE]
            IN IF ack_num \in DOMAIN s2.send_buffer
               THEN LET r == send_packet(s2, ack_num, s2.send_buffer[ack_num])
                    IN [srv |-> r.srv, out |-> r.out, pass |-> NoPass]
               ELSE [srv |-> s2, out |-> <<>>, pass |-> NoPass]
       ELSE [srv |-> s1, out |-> <<>>, pass |-> NoPass]

\* p2_server.handle_ack, lines 175-179: the offsets whose stored send time
\* gives the RTT sample when the ACK is handled; taken before the ACK is
\* classified as new or duplicate
rtt_sample_seqsB(s, ack_num, timestamp_echo) ==
    IF timestamp_echo > 0 /\ ack_num \in DOMAIN s.in_flight
    THEN {ack_num} ELSE {}

\* p2_server.handle_ack: [srv, out, pass]
handle_ackB(s, ack_num, timestamp_echo) ==
    IF ack_num > s.last_ack THEN NewAck(s, ack_num)
    ELSE IF ack_num = s.last_ack THEN DuplicateAck(s, ack_num)
    ELSE [srv |-> s, out |-> <<>>, pass |-> NoPass]

\* the newest segment in flight instead of the oldest
get_newest_unacked_seq(s) ==
    CHOOSE seq \in DOMAIN s.in_flight : \A other \in DOMAIN s.in_flight : seq >= other

\* p2_server.get_oldest_unacked_seq (in_flight is not empty)
get_oldest_unacked_seq(s) ==
    CHOOSE seq \in DOMAIN s.in_flight : \A other \in DOMAIN s.in_flight : seq <= other

\* The timer values of the variant B sender, in ticks of 10 ms; the
\* weighted means round down.  They are held apart from the window state:
\* handle_timeout takes them as rtt and returns them.
ServerBRttInit == [estimated_rtt |-> 50, dev_rtt |-> 25, rto |-> 100]

\* p2_server.update_rtt
update_rtt(s, sample_rtt) ==
    IF sample_rtt <= 0 THEN s
    ELSE LET est == IF s.estimated_rtt = 0 THEN sample_rtt
                    ELSE (7 * s.estimated_rtt + sample_rtt) \div 8
             dev == IF s.estimated_rtt = 0 THEN sample_rtt \div 2
                    ELSE (3 * s.dev_rtt + Max(sample_rtt - est, est - sample_rtt)) \div 4
         IN [estimated_rtt |-> est, dev_rtt |-> dev,
             rto |-> Max(20, Min(est + 4 * dev, 6000))]

\* backoff_rto without the cap
backoff_rto_uncapped(s) == [s EXCEPT !.rto = s.rto * 2]

\* p2_server.handle_timeout, lines 275-276: exponential backoff
backoff_rto(s) == [s EXCEPT !.rto = Min(s.rto * 2, 6000)]

\* TimeoutPhase that leaves in_fast_recovery as it is
TimeoutPhaseKeepingRecovery(s) == [s EXCEPT !.in_slow_start = TRUE]

\* p2_server.handle_timeout, lines 266-267
TimeoutPhase(s) == [s EXCEPT !.in_slow_start = TRUE, !.in_fast_recovery = FALSE]

\* p2_server.handle_timeout: [srv, out, rtt]
handle_timeout(s, rtt) ==
    IF DOMAIN s.in_flight = {} THEN [srv |-> s, out |-> <<>>, rtt |-> rtt]
    ELSE LET oldest_seq == get_oldest_unacked_seq(s)
             s1 == TimeoutPhase([s EXCEPT !.ssthresh = LossSsthresh(s), !.cwnd = MSS])
         IN IF oldest_seq \in DOMAIN s1.send_buffer
            THEN LET r == send_packet(s1, oldest_seq, s1.send_buffer[oldest_seq])
                 IN [srv |-> r.srv, out |-> r.out, rtt |-> backoff_rto(rtt)]
            ELSE [srv |-> s1, out |-> <<>>, rtt |-> rtt]

\* p2_server.send_eof
send_eof(s) == <<create_packetB(s.file_size, 1, EOF_MARKER)>>

\* ------------------------------------------ the variant B system
\* data.txt: empty, one byte, the three bytes "EOF" or three other bytes,
\* one byte more than a segment, MaxChunks full segments
ConfigsB ==
    {[size |-> n, eof_at |-> NoEof] : n \in {0, 1, EOF_LEN, MSS + 1, MaxChunks * MSS}}
        \cup {[size |-> EOF_LEN, eof_at |-> 0]}

\* the state when the request has arrived
InitB ==
    /\ IdleA /\ cli = <<>> /\ IdleR
    /\ file_data \in ConfigsB
    /\ srvB = ServerBInit(file_data.size)
    /\ srvB_main = [pc |-> "start", rounds |-> 0]
    /\ cliB = ClientBInit
    /\ cliB_main = [pc |-> "recv"]
    /\ netB_data = {} /\ netB_ack = {}
    /\ passB = NoPass

\* p2_server.run, lines 310-314: fill the buffer, send the initial window
ServerBStart(lossy) ==
    /\ srvB_main.pc = "start"
    /\ LET r == send_packets_in_window(ensure_buffer_filled(srvB))
       IN /\ srvB' = r.srv
          /\ netB_data' \in Send(lossy, netB_data, r.out)
          /\ passB' = [ran |-> TRUE, admitted |-> r.admitted]
    /\ srvB_main' = [srvB_main EXCEPT !.pc = "loop"]
    /\ UNCHANGED <<varsA, varsR, varsCliB, netB_ack>>

\* p2_server.run, lines 330-339: an ACK is ready while LAR < file_size
ServerBReceiveAck(lossy) ==
    /\ srvB_main.pc = "loop"
    /\ srvB.LAR < srvB.file_size
    /\ \E packet \in netB_ack, keep \in Copies(lossy) :
          LET a == parse_ackB(packet)
              r == handle_ackB(srvB, a.ack_num, a.timestamp_echo)
          IN /\ a.ack_num = srvB.last_ack => srvB.dup_ack_count < MaxDupAcks
             /\ netB_ack' = IF keep THEN netB_ack ELSE netB_ack \ {packet}
             /\ IF a.ok
                THEN /\ srvB' = r.srv
                     /\ netB_data' \in Send(lossy, netB_data, r.out)
                     /\ passB' = r.pass
                ELSE UNCHANGED <<srvB, netB_data>> /\ passB' = NoPass
    /\ UNCHANGED <<varsA, varsR, varsCliB, srvB_main>>

\* p2_server.run, lines 340-342: select ran into the deadline
ServerBTimeout(lossy) ==
    /\ srvB_main.pc = "loop"
    /\ srvB.LAR < srvB.file_size
    /\ lossy \/ (netB_data = {} /\ netB_ack = {})
    /\ \A seq \in DOMAIN srvB.in_flight : srvB.in_flight[seq].retx_count < RetxCap
    /\ LET r == handle_timeout(srvB, ServerBRttInit)
       IN /\ srvB' = r.srv
          /\ netB_data' \in Send(lossy, netB_data, r.out)
    /\ passB' = NoPass
    /\ UNCHANGED <<varsA, varsR, varsCliB, srvB_main, netB_ack>>

\* p2_server.run, lines 319 and 345: the loop ends, the marker is sent
ServerBSendEof(lossy) ==
    /\ srvB_main.pc = "loop"
    /\ ~(srvB.LAR < srvB.file_size)
    /\ netB_data' \in Send(lossy, netB_data, send_eof(srvB))
    /\ srvB_main' = [pc |-> "eof", rounds |-> 0]
    /\ passB' = NoPass
    /\ UNCHANGED <<varsA, varsR, varsCliB, srvB, netB_ack>>

\* p2_server.run, lines 353-356: the datagram received in a round of the
\* wait sets eof_acked
eof_acked(s, packet) ==
    LET a == parse_ackB(packet)
    IN a.ok /\ a.ack_num = s.file_size

\* p2_server.run, lines 349-359: a datagram arrives in a round of the wait
ServerBEofAck(lossy) ==
    /\ srvB_main.pc = "eof"
    /\ \E packet \in netB_ack, keep \in Copies(lossy) :
          /\ netB_ack' = IF keep THEN netB_ack ELSE netB_ack \ {packet}
          /\ srvB_main' =
                 IF eof_acked(srvB, packet) \/ srvB_main.rounds + 1 = EOF_WAIT_ROUNDS
                 THEN [pc |-> "done", rounds |-> srvB_main.rounds]
                 ELSE [pc |-> "eof", rounds |-> srvB_main.rounds + 1]
    /\ passB' = NoPass
    /\ UNCHANGED <<varsA, varsR, varsCliB, srvB, netB_data>>

\* p2_server.run, lines 360-362: a round of the wait ends without a datagram
ServerBEofRetry(lossy) ==
    /\ srvB_main.pc = "eof"
    /\ lossy \/ (netB_data = {} /\ netB_ack = {})
    /\ netB_data' \in Send(lossy, netB_data, send_eof(srvB))
    /\ srvB_main' =
           IF srvB_main.rounds + 1 = EOF_WAIT_ROUNDS
           THEN [pc |-> "done", rounds |-> srvB_main.rounds]
           ELSE [pc |-> "eof", rounds |-> srvB_main.rounds + 1]
    /\ passB' = NoPass
    /\ UNCHANGED <<varsA, varsR, varsCliB, srvB, netB_ack>>

\* p2_client.run, lines 153-172: a datagram arrives
ClientBReceive(lossy) ==
    /\ cliB_main.pc = "recv"
    /\ \E packet \in netB_data, keep \in Copies(lossy) :
          LET p == parse_packetB(packet)
              r == handle_packetB(cliB, p.seq, p.timestamp, p.data)
          IN /\ netB_data' = IF keep THEN netB_data ELSE netB_data \ {packet}
             /\ IF p.ok
                THEN /\ cliB' = r.cli
                     /\ netB_ack' \in Send(lossy, netB_ack, r.out)
                     /\ cliB_main' = [pc |-> IF r.ret THEN "closed" ELSE "recv"]
                ELSE UNCHANGED <<cliB, cliB_main, netB_ack>>
    /\ UNCHANGED <<varsA, varsR, srvB, srvB_main, passB>>

NextB ==
    \/ ServerBStart(TRUE)
    \/ ServerBReceiveAck(TRUE)
    \/ ServerBTimeout(TRUE)
    \/ ServerBSendEof(TRUE)
    \/ ServerBEofAck(TRUE)
    \/ ServerBEofRetry(TRUE)
    \/ ClientBReceive(TRUE)

SpecB == InitB /\ [][NextB]_vars

\* The variant B transfer of a file of one segment at most, with both
\* programs scheduled again and again: the sender's loop takes a step
\* whenever it can, the receiver receives a datagram that stays in flight.
SmallConfigsB == {cfg \in ConfigsB : cfg.size <= EOF_LEN}

InitBSmall ==
    /\ IdleA /\ cli = <<>> /\ IdleR
    /\ file_data \in SmallConfigsB
    /\ srvB = ServerBInit(file_data.size)
    /\ srvB_main = [pc |-> "start", rounds |-> 0]
    /\ cliB = ClientBInit
    /\ cliB_main = [pc |-> "recv"]
    /\ netB_data = {} /\ netB_ack = {}
    /\ passB = NoPass

\* p2_server.run, lines 310-362: the sender's thread
ServerBMainStep ==
    \/ ServerBStart(TRUE)
    \/ ServerBReceiveAck(TRUE)
    \/ ServerBTimeout(TRUE)
    \/ ServerBSendEof(TRUE)
    \/ ServerBEofAck(TRUE)
    \/ ServerBEofRetry(TRUE)

FairSpecB ==
    /\ InitBSmall
    /\ [][NextB]_vars
    /\ WF_vars(ServerBMainStep)
    /\ WF_vars(ClientBReceive(TRUE))

\* ------------------------------------------------- RTT estimators
\* Times are integers, in ticks of 10 ms; the weighted means round down.
\* srv and srvB hold the estimator fields of the two servers.
ServerRttInit == [estimated_rtt |-> 10, dev_rtt |-> 1, rto |-> 20]

\* update_rto with the upper clamp missing
update_rto_unclamped(s, sample_rtt) ==
    LET est == IF s.estimated_rtt = 0 THEN sample_rtt
               ELSE (7 * s.estimated_rtt + sample_rtt) \div 8
        dev == IF s.estimated_rtt = 0 THEN sample_rtt \div 2
               ELSE (3 * s.dev_rtt + Max(sample_rtt - est, est - sample_rtt)) \div 4
    IN [estimated_rtt |-> est, dev_rtt |-> dev, rto |-> Max(10, est + 4 * dev)]

\* p1_server.update_rto
update_rto(s, sample_rtt) ==
    LET est == IF s.estimated_rtt = 0 THEN sample_rtt
               ELSE (7 * s.estimated_rtt + sample_rtt) \div 8
        dev == IF s.estimated_rtt = 0 THEN sample_rtt \div 2
               ELSE (3 * s.dev_rtt + Max(sample_rtt - est, est - sample_rtt)) \div 4
    IN [estimated_rtt |-> est, dev_rtt |-> dev,
        rto |-> Max(10, Min(300, est + 4 * dev))]

\* the RTT samples: time.time() - send_time of a datagram just sent, of one
\* sent a tick, a round trip, a second or several seconds ago
Samples == {0, 1, 10, 100, MaxSample}
SamplesB == {0, 1, 50, MaxSampleB}

InitRtt ==
    /\ variant \in {"A", "B"}
    /\ srv = ServerRttInit
    /\ srvB = ServerBRttInit
    /\ file_data = <<>> /\ srv_main = <<>> /\ cli = <<>> /\ cli_main = <<>>
    /\ net_data = {} /\ net_ack = {} /\ fr = <<>>
    /\ segs = {} /\ IdleCliB
    /\ srvB_main = <<>> /\ netB_data = {} /\ netB_ack = {} /\ passB = <<>>

\* p1_server.handle_ack, lines 166-169: a cumulative ACK gives a sample
RttSampleA ==
    /\ variant = "A"
    /\ \E sample_rtt \in Samples : srv' = update_rto(srv, sample_rtt)
    /\ UNCHANGED <<file_data, srv_main, cli, cli_main, net_data, net_ack, fr>>
    /\ UNCHANGED <<varsR, varsCliB, varsSrvB>>

\* p2_server.handle_ack, lines 176-179: an ACK gives a sample
RttSampleB ==
    /\ variant = "B"
    /\ \E sample_rtt \in SamplesB :
          srvB' = IF sample_rtt > 0 THEN update_rtt(srvB, sample_rtt) ELSE srvB
    /\ UNCHANGED <<varsA, varsR, varsCliB, srvB_main, netB_data, netB_ack, passB>>

\* p2_server.handle_timeout: the retransmission timer expires
RttBackoffB ==
    /\ variant = "B"
    /\ srvB' = backoff_rto(srvB)
    /\ UNCHANGED <<varsA, varsR, varsCliB, srvB_main, netB_data, netB_ack, passB>>

NextRtt == RttSampleA \/ RttSampleB \/ RttBackoffB

SpecRtt == InitRtt /\ [][NextRtt]_vars

\* ------------------------------------------- variant A: the ACK codec
\* The 32-bit fields of an ACK datagram range over 0..MaxCodecField.
CodecFields == 0..MaxCodecField

\* the pairs update_sack_blocks can produce: start > 0 (a buffered offset
\* is above recv_base >= 0) and end - start = a payload length > 0
CodecPairs == {q \in CodecFields \X CodecFields : 0 < q[1] /\ q[1] < q[2]}

\* lists of up to three such pairs
CodecSackLists ==
    {<<>>} \cup {<<q>> : q \in CodecPairs}
           \cup {<<q, r>> : q \in CodecPairs, r \in CodecPairs}
           \cup {<<q, r, u>> : q \in CodecPairs, r \in CodecPairs, u \in CodecPairs}

\* any 20-octet datagram the sender's socket can receive
AckDatagrams ==
    {[kind |-> "ack", len |-> HEADER_SIZE, ack |-> a, sack |-> <<b, c, d, e>>] :
        a \in CodecFields, b \in CodecFields, c \in CodecFields,
        d \in CodecFields, e \in CodecFields}

\* cli holds the arguments of create_ack_packet, srv the result of parse_ack
InitCodec ==
    /\ variant = "codec"
    /\ \E cum \in CodecFields, sacks \in CodecSackLists :
          cli = [recv_base |-> cum, sack_blocks |-> sacks]
    /\ cli_main = [pc |-> "idle"]
    /\ srv = [ok |-> FALSE, ack_num |-> 0, sack_blocks |-> <<>>]
    /\ net_ack = {}
    /\ file_data = <<>> /\ srv_main = <<>> /\ net_data = {} /\ fr = <<>>
    /\ segs = {} /\ IdleCliB /\ IdleSrvB

\* p1_client.handle_packet, lines 183-184: the receiver encodes and sends
CodecEncode ==
    /\ variant = "codec" /\ cli_main.pc = "idle"
    /\ net_ack' = {create_ack_packet(cli.recv_base, cli.sack_blocks)}
    /\ cli_main' = [pc |-> "encoded"]
    /\ UNCHANGED <<file_data, srv, srv_main, cli, net_data, fr>>
    /\ UNCHANGED <<varsR, varsCliB, varsSrvB>>

\* p1_server.receive_thread, line 220: a datagram from anywhere arrives
CodecArrive ==
    /\ variant = "codec" /\ cli_main.pc = "idle"
    /\ \E d \in AckDatagrams : net_ack' = {d}
    /\ cli_main' = [pc |-> "arrived"]
    /\ UNCHANGED <<file_data, srv, srv_main, cli, net_data, fr>>
    /\ UNCHANGED <<varsR, varsCliB, varsSrvB>>

\* p1_server.receive_thread, line 221: the datagram is parsed
CodecDecode ==
    /\ variant = "codec" /\ cli_main.pc \in {"encoded", "arrived"}
    /\ \E packet \in net_ack : srv' = parse_ack(packet)
    /\ cli_main' = [pc |-> IF cli_main.pc = "encoded" THEN "decoded" ELSE "parsed"]
    /\ UNCHANGED <<file_data, srv_main, cli, net_data, net_ack, fr>>
    /\ UNCHANGED <<varsR, varsCliB, varsSrvB>>

NextCodec == CodecEncode \/ CodecArrive \/ CodecDecode

SpecCodec == InitCodec /\ [][NextCodec]_vars

\* ------------------------------------------------------------ claims
FileWritten == IsFileRange(cli.output, 0, file_data.size)

\* C1: whenever the receiver's transfer_complete is true, the bytes written
\* to the sink are the file bytes [0, file_size), each once and in order.
C1_CompleteImpliesFileWritten == cli.transfer_complete => FileWritten

\* C2: over a channel that delivers every datagram and with every thread
\* scheduled, the receiver eventually reaches transfer_complete with the
\* written file equal to data.txt.
C2_EventuallyCompleteAndEqual == <>(cli.transfer_complete /\ FileWritten)

\* C4: send_base <= next_seq_num <= file_size + 3 and every key of window
\* lies in [send_base, next_seq_num), also once the EOF has been sent and
\* once it has been acknowledged.
C4_SenderWindowInvariant ==
    /\ srv.send_base <= srv.next_seq_num
    /\ srv.next_seq_num <= srv.file_size + EOF_LEN
    /\ \A seq \in DOMAIN srv.window : srv.send_base <= seq /\ seq < srv.next_seq_num

C8_WindowBound ==
    srv.send_base <= srv.file_size =>
        /\ srv.next_seq_num - srv.send_base <= srv.sws
        /\ \A seq \in DOMAIN srv.window :
               srv.window[seq].src = "file" =>
                   (1 <= BytesLen(srv.window[seq]) /\ BytesLen(srv.window[seq]) <= MSS)

\* a full window below the file size, holding a segment of exactly MSS bytes
C8_Witness ==
    /\ srv.next_seq_num - srv.send_base = srv.sws
    /\ \E seq \in DOMAIN srv.window : BytesLen(srv.window[seq]) = MSS

C8_WitnessSmallWindow ==
    /\ srv.sws < MSS /\ srv.sws < srv.file_size
    /\ srv.next_seq_num - srv.send_base = srv.sws

\* C10 as stated: from a fast retransmission of send_base until send_base
\* advances or the next one, the segment at send_base is retransmitted
\* exactly once, counting the timeout scan too.
C10_ExactlyOneRetransmission == fr.fast > 0 => fr.retx = 1

\* C10 as amended: handle_ack retransmits the segment at send_base at most
\* once per three duplicate ACKs (the retransmission counted in retx when it
\* takes place); retransmissions by the timeout scan come on top.
C10_OneFastRetransmitPerTripleDup ==
    /\ fr.fast * fast_retransmit_threshold <= fr.dups
    /\ fr.fast > 0 => fr.retx >= 1

\* a fast retransmission followed by a timeout retransmission of the same
\* segment, send_base not having advanced
C10_Witness == fr.fast = 1 /\ fr.dups >= fast_retransmit_threshold /\ fr.retx = 2

\* C3: the bytes written to the sink are exactly the file bytes
\* [0, recv_base), and every key of recv_buffer is above recv_base.
C3_ReceiverInvariant ==
    /\ IsFileRange(cli.output, 0, cli.recv_base)
    /\ \A seq \in DOMAIN cli.recv_buffer : seq > cli.recv_base

\* segments written, others buffered behind a hole
C3_Witness ==
    /\ cli.recv_base > 0 /\ Len(cli.output) >= 2
    /\ Cardinality(DOMAIN cli.recv_buffer) >= 2

\* any segment: a file slice or the marker, at any offset
AnySegment ==
    {[seq |-> s, data |-> d] :
        s \in 0..(file_data.size + 1),
        d \in {FileSlice(x[1], x[2]) :
                     x \in {y \in (0..file_data.size) \X (0..EOF_LEN) :
                               y[1] + y[2] <= file_data.size}}
                  \cup {EOF_MARKER}}

RECURSIVE RepeatA(_, _, _)
RepeatA(c, p, n) ==
    IF n = 0 THEN c ELSE RepeatA(handle_packet(c, p.seq, p.data).cli, p, n - 1)

RECURSIVE RepeatB(_, _, _)
RepeatB(c, p, n) ==
    IF n = 0 THEN c ELSE RepeatB(handle_packetB(c, p.seq, 1, p.data).cli, p, n - 1)

\* C5: delivering a segment N >= 1 times in a row leaves the written file,
\* recv_base (next_expected_seq) and the buffer as delivering it once does.
C5_Idempotent ==
    \A p \in AnySegment, n \in 2..MaxRepeat :
        /\ LET once == RepeatA(cli, p, 1)
               many == RepeatA(cli, p, n)
           IN /\ many.output = once.output
              /\ many.recv_base = once.recv_base
              /\ many.recv_buffer = once.recv_buffer
        /\ variant = "B" =>
           LET once == RepeatB(cliB, p, 1)
               many == RepeatB(cliB, p, n)
           IN /\ many.output = once.output
              /\ many.next_expected_seq = once.next_expected_seq
              /\ many.recv_buffer = once.recv_buffer

\* both receivers hold written and buffered segments when a segment comes
C5_Witness ==
    /\ variant = "B"
    /\ cliB.next_expected_seq > 0
    /\ DOMAIN cliB.recv_buffer # {}

\* the maximal runs of bytes held in recv_buffer
HeldBytes ==
    {b \in 0..(file_data.size + EOF_LEN) :
        \E seq \in DOMAIN cli.recv_buffer :
            seq <= b /\ b < seq + BytesLen(cli.recv_buffer[seq])}

HeldRuns ==
    {r \in (0..(file_data.size + EOF_LEN)) \X (0..(file_data.size + EOF_LEN)) :
        /\ r[1] < r[2]
        /\ \A b \in r[1]..(r[2] - 1) : b \in HeldBytes
        /\ (r[1] - 1) \notin HeldBytes
        /\ r[2] \notin HeldBytes}

SackBlocksExact ==
    LET sb == cli.sack_blocks
    IN /\ Len(sb) = Min(2, Cardinality(HeldRuns))
       /\ \A i \in 1..Len(sb) : sb[i] \in HeldRuns /\ cli.recv_base < sb[i][1]
       /\ Len(sb) = 2 => sb[1][2] < sb[2][1]
       /\ \A r \in HeldRuns : (\A i \in 1..Len(sb) : r # sb[i]) => Len(sb) = 2 /\ r[1] > sb[2][1]

\* C6 as stated: after every handle_packet call sack_blocks holds the two
\* lowest maximal runs of buffered bytes, sorted, disjoint, above recv_base.
C6_SackBlocksAlways == SackBlocksExact

\* C6 as amended: the same, after every handle_packet call that leaves
\* transfer_complete false.
C6_SackBlocksWhileReceiving == ~cli.transfer_complete => SackBlocksExact

\* three runs are buffered and the lowest two are reported
C6_Witness ==
    /\ ~cli.transfer_complete
    /\ Cardinality(HeldRuns) = 3
    /\ Len(cli.sack_blocks) = 2

\* C9: every segment admitted by send_packets_in_window has size
\* min(MSS, file_size - next_seq, usable), and right after an admission pass
\* the bytes in flight LFS - LAR do not exceed cwnd.
C9_AdmissionWithinCwnd ==
    passB.ran =>
        /\ \A i \in 1..Len(passB.admitted) :
              passB.admitted[i].size =
                  Min(MSS, Min(passB.admitted[i].remaining, passB.admitted[i].usable))
        /\ srvB.LFS - srvB.LAR <= srvB.cwnd

\* C11: cwnd >= MSS in every reachable state, and ssthresh >= 2*MSS in every
\* state after the first loss event (ssthresh starts above 2*MSS, so the
\* bound is stated for every state).
C11_CongestionBounds ==
    /\ srvB.cwnd >= MSS
    /\ srvB.ssthresh >= 2 * MSS

\* a timeout has cut ssthresh to its floor and cwnd to one segment
C11_Witness ==
    /\ srvB.ssthresh = 2 * MSS
    /\ srvB.cwnd = MSS
    /\ srvB.LFS > srvB.LAR

\* a third duplicate ACK has started fast recovery
C11_WitnessFastRecovery == srvB.in_fast_recovery /\ srvB.ssthresh < INITIAL_SSTHRESH

C13_RtoWithinBoundsB == variant = "B" => (20 <= srvB.rto /\ srvB.rto <= 6000)

\* back-offs have doubled rto up to the cap
C13_Witness ==
    /\ variant = "B"
    /\ srvB.rto = 6000
    /\ srvB.estimated_rtt + 4 * srvB.dev_rtt < 6000

\* C14: the EOF pseudo-segment enters window (at offset file_size) only in
\* the step that sets eof_sent, with next_seq_num at file_size or beyond;
\* eof_sent is never reset, so this happens at most once; the entry leaves
\* window only when send_base moves above file_size, and while it is in
\* window the timeout scan resends it when it expires unless it is SACKed.
C14_EofLifecycle ==
    [][LET had == srv.file_size \in DOMAIN srv.window
           has == srv.file_size \in DOMAIN srv'.window
       IN /\ (~had /\ has) =>
                 /\ ~srv.eof_sent /\ srv'.eof_sent
                 /\ srv'.next_seq_num >= srv.file_size
                 /\ srv'.window[srv.file_size] = EOF_MARKER
          /\ (~srv.eof_sent /\ srv'.eof_sent) => (~had /\ has)
          /\ srv.eof_sent => srv'.eof_sent
          /\ (had /\ ~has) => srv'.send_base > srv.file_size
          /\ (srv'.eof_sent /\ srv'.send_base <= srv.file_size) => has
          /\ (has /\ ~is_sacked(srv', srv.file_size)) =>
                 retransmit_timeout_packets(srv', {srv.file_size})
                     = <<create_packet(srv.file_size, EOF_MARKER)>>
      ]_vars

\* every data byte is acknowledged and the EOF still waits in window
C14_Witness ==
    /\ srv.eof_sent
    /\ srv.file_size \in DOMAIN srv.window
    /\ srv.send_base = srv.file_size
    /\ srv.file_size > 0

\* the ACK datagram with cumulative value ack_num and the given SACK pairs
\* in its four SACK words (zero padded)
AckCarries(packet, ack_num, blocks) ==
    /\ packet.kind = "ack"
    /\ packet.ack = ack_num
    /\ packet.sack = [i \in 1..4 |->
                         IF (i + 1) \div 2 <= Len(blocks)
                         THEN blocks[(i + 1) \div 2][2 - (i % 2)]
                         ELSE 0]

\* C15: handle_packet turns transfer_complete true only when an EOF is
\* processed at recv_base (it arrives there, or it is buffered where the
\* drain loop arrives), and every ACK it then sends carries offset + 3 and
\* no SACK block; an EOF at any other offset is buffered, leaves
\* transfer_complete false and is answered by one ACK with the unchanged
\* recv_base and the current SACK blocks.
C15_EofHandshake ==
    ~cli.transfer_complete =>
    \A p \in AnySegment :
        LET r == handle_packet(cli, p.seq, p.data)
            direct == IsEOF(p.data) /\ p.seq = cli.recv_base
            drained == /\ ~IsEOF(p.data) /\ p.seq = cli.recv_base
                       /\ r.cli.recv_base \in DOMAIN cli.recv_buffer
                       /\ IsEOF(cli.recv_buffer[r.cli.recv_base])
        IN /\ r.cli.transfer_complete => (direct \/ drained)
           /\ direct => r.cli.transfer_complete
           /\ r.cli.transfer_complete =>
                 /\ r.ret
                 /\ Len(r.out) = 3
                 /\ \A i \in 1..Len(r.out) :
                        AckCarries(r.out[i], r.cli.recv_base + EOF_LEN, <<>>)
           /\ (IsEOF(p.data) /\ p.seq # cli.recv_base) =>
                 /\ ~r.cli.transfer_complete /\ ~r.ret
                 /\ r.cli.recv_base = cli.recv_base
                 /\ p.seq \in DOMAIN r.cli.recv_buffer
                 /\ r.cli.recv_buffer[p.seq] = p.data
                 /\ Len(r.out) = 1
                 /\ AckCarries(r.out[1], cli.recv_base, r.cli.sack_blocks)

\* the EOF waits in recv_buffer behind a hole, data below it is written
C15_Witness ==
    /\ variant = "A"
    /\ ~cli.transfer_complete
    /\ cli.recv_base > 0
    /\ \E seq \in DOMAIN cli.recv_buffer :
          IsEOF(cli.recv_buffer[seq]) /\ seq > cli.recv_base + 1

\* C16: the main loop of the variant A sender always eventually terminates,
\* also when no ACK ever arrives and SWS is smaller than the file.
C16_SenderTerminates == <>(srv_main.pc = "stopped")

\* C17: the variant A sender leaves its loop through the grace timer only if
\* send_base has not advanced since the grace period started.
C17_GraceOnlyWithoutProgress ==
    [][(/\ srv_main.pc = "check"
        /\ srv_main'.pc = "finish"
        /\ ~srv.transfer_complete)
       => srv.send_base = srv_main.eof_send_base]_vars

\* C18: the receive loop of the variant A receiver always eventually
\* terminates, by the in-order EOF or by the idle timeout.
C18_ReceiverTerminates == <>(cli_main.pc = "closed")

\* C19: the variant B receiver terminates even if every EOF datagram is
\* lost or the sender stops: once the sender has stopped, a receiver that
\* has entered its receive loop (it has accepted data) eventually leaves it.
C19_ReceiverBTerminates ==
    (srvB_main.pc = "done" /\ cliB.next_expected_seq > 0)
        ~> (cliB_main.pc = "closed")

\* the connection state of the receiver under test
Conn == IF variant = "A" THEN cli_main ELSE cliB_main

\* the parts of the retry budget that do not depend on who sent a datagram:
\* at most 5 requests, one per attempt; after 5 attempts without a datagram
\* the receiver has failed with exit code 1, no packet handled, no ACK sent
RetryBudget ==
    /\ Conn.requests <= max_retries
    /\ Conn.requests = Conn.attempt + (IF Conn.pc \in {"request", "failed"} THEN 0 ELSE 1)
    /\ Conn.pc = "failed" =>
           /\ Conn.requests = max_retries
           /\ Conn.exit_code = 1 /\ Conn.handled = 0 /\ Conn.acks = 0
    /\ (Conn.attempt = max_retries /\ Conn.arrived = 0) => Conn.pc = "failed"
    /\ Conn.handled = 0 => Conn.acks = 0

\* C20 as stated: in both variants, once a datagram has arrived in attempt
\* k the receiver sends no further request (requests stays k).
C20_RetryBudgetAnyDatagram ==
    variant \in {"A", "B"} =>
        /\ RetryBudget
        /\ Conn.arrived > 0 => Conn.requests = Conn.arrived

\* C20 amended: the variant B receiver stops requesting once a datagram
\* from the server address has arrived in attempt k; a datagram from
\* another address ends its attempt like a timeout.  The variant A receiver
\* stops requesting at the first datagram from any address.
C20_RetryBudget ==
    variant \in {"A", "B"} =>
        /\ RetryBudget
        /\ (variant = "A" /\ Conn.arrived > 0) => Conn.requests = Conn.arrived
        /\ (variant = "B" /\ Conn.served > 0) => Conn.requests = Conn.served
        /\ (variant = "B" /\ Conn.served = 0 /\ Conn.arrived > 0)
               => Conn.pc \in {"request", "wait", "failed"}

\* the receiver connected in its third attempt or later and handled the
\* first packet
C20_Witness ==
    /\ variant = "B"
    /\ cliB_main.served >= 3
    /\ cliB_main.arrived < cliB_main.served
    /\ cliB_main.handled = 1

\* five attempts without a datagram
C20_WitnessFailed ==
    /\ variant \in {"A", "B"}
    /\ Conn.pc = "failed" /\ Conn.arrived = 0

\* datagrams shorter than the 20-octet header: a request octet sent again,
\* an ACK or a data packet cut after 4 or after 19 octets (the first four
\* octets, when present, are read as the number)
ShortLengths == {1, 4, HEADER_SIZE - 1}

ShortDatagrams ==
    {[kind |-> "short", len |-> n, ack |-> a, seq |-> a,
      sack |-> <<0, 0, 0, 0>>, data |-> FileSlice(0, 0)] :
        n \in ShortLengths, a \in 0..(MaxFileSize + EOF_LEN)}

\* C21: in variant A a datagram shorter than the header, arriving at the
\* receiver or at the sender, changes no protocol state and makes neither
\* side transmit.
C21_ShortDatagramsDiscarded ==
    (srv # <<>> /\ cli # <<>> /\ srv_main # <<>> /\ srv_main.pc # "stopped") =>
        \A d \in ShortDatagrams :
            /\ receive_ack(srv, d).srv = srv
            /\ receive_ack(srv, d).out = <<>>
            /\ receive_packet(cli, d).cli = cli
            /\ receive_packet(cli, d).out = <<>>

\* a step of the variant B sender that handles a new cumulative ACK
NewAckStep == srvB'.last_ack > srvB.last_ack

\* C22: in FastRecovery a new ACK ends FastRecovery only if it covers
\* recovery_point, a new ACK below recovery_point leaves the sender in
\* FastRecovery; on exit the phase is CongestionAvoidance and cwnd equals
\* ssthresh.
C22_FastRecoveryExit ==
    [][(srvB.in_fast_recovery /\ NewAckStep) =>
          IF srvB'.last_ack >= srvB.recovery_point
          THEN /\ ~srvB'.in_fast_recovery /\ ~srvB'.in_slow_start
               /\ srvB'.cwnd = srvB'.ssthresh
          ELSE srvB'.in_fast_recovery]_vars

\* a step of the variant B sender that handles a duplicate ACK
DupAckStep ==
    /\ srvB'.last_ack = srvB.last_ack
    /\ srvB'.dup_ack_count = srvB.dup_ack_count + 1

\* in_flight after one more transmission of the segment at seq
AfterTransmission(in_flight, seq) ==
    IF seq \in DOMAIN in_flight
    THEN [in_flight EXCEPT ![seq] = [retx_count |-> @.retx_count + 1]]
    ELSE MapPut(in_flight, seq, [retx_count |-> 0])

\* C23: outside FastRecovery the third duplicate ACK sets
\* ssthresh = max(cwnd/2, 2*MSS), cwnd = ssthresh + 3*MSS,
\* recovery_point = LFS, enters FastRecovery and transmits exactly the
\* segment at the duplicated offset; the first and the second duplicate ACK
\* transmit nothing and change neither cwnd nor ssthresh.
C23_FastRecoveryEntry ==
    [][(DupAckStep /\ ~srvB.in_fast_recovery) =>
          IF srvB'.dup_ack_count = 3
          THEN /\ srvB'.ssthresh = Max(srvB.cwnd \div 2, 2 * MSS)
               /\ srvB'.cwnd = srvB'.ssthresh + 3 * MSS
               /\ srvB'.recovery_point = srvB.LFS
               /\ srvB'.in_fast_recovery /\ ~srvB'.in_slow_start
               /\ srvB'.in_flight = AfterTransmission(srvB.in_flight, srvB.last_ack)
               /\ srvB'.LFS = srvB.LFS
               /\ netB_data' \subseteq netB_data \cup
                      {create_packetB(srvB.last_ack, 1, srvB.send_buffer[srvB.last_ack])}
          ELSE srvB'.dup_ack_count \in {1, 2} =>
                  /\ srvB'.cwnd = srvB.cwnd /\ srvB'.ssthresh = srvB.ssthresh
                  /\ srvB'.in_flight = srvB.in_flight /\ srvB'.LFS = srvB.LFS
                  /\ netB_data' = netB_data
                  /\ srvB'.in_fast_recovery = srvB.in_fast_recovery
                  /\ srvB'.in_slow_start = srvB.in_slow_start]_vars

\* the third duplicate ACK has just been handled
C23_Witness ==
    /\ srvB_main # <<>> /\ srvB # <<>>
    /\ srvB.in_fast_recovery /\ srvB.dup_ack_count = 3
    /\ srvB.cwnd = srvB.ssthresh + 3 * MSS
    /\ srvB.last_ack \in DOMAIN srvB.in_flight
    /\ srvB.in_flight[srvB.last_ack].retx_count = 1
    /\ Cardinality(DOMAIN srvB.in_flight) >= 2

\* timer values before a timeout: the floor, the initial second, around
\* the half of the cap, the cap
RtoBeforeTimeout == {20, 100, 2999, 3000, 3001, 6000}

\* C24: in every state of the sender, a timeout with a segment in flight
\* sets ssthresh = max(cwnd/2, 2*MSS), cwnd = MSS, the
\* phase SlowStart (FastRecovery is left), retransmits only the oldest
\* segment in flight and doubles rto up to 60 s; with nothing in flight it
\* changes no state and sends nothing.
C24_TimeoutCollapse ==
    srvB_main # <<>> =>
        \A rto \in RtoBeforeTimeout :
            LET rtt == [ServerBRttInit EXCEPT !.rto = rto]
                r == handle_timeout(srvB, rtt)
            IN IF DOMAIN srvB.in_flight # {}
               THEN LET oldest == CHOOSE seq \in DOMAIN srvB.in_flight :
                                      \A other \in DOMAIN srvB.in_flight : seq <= other
                    IN /\ r.srv = [srvB EXCEPT
                                      !.ssthresh = Max(srvB.cwnd \div 2, 2 * MSS),
                                      !.cwnd = MSS,
                                      !.in_slow_start = TRUE,
                                      !.in_fast_recovery = FALSE,
                                      !.in_flight = AfterTransmission(@, oldest)]
                       /\ r.out = <<create_packetB(oldest, 1, srvB.send_buffer[oldest])>>
                       /\ r.rtt = [rtt EXCEPT !.rto = Min(2 * rto, 6000)]
               ELSE r.srv = srvB /\ r.out = <<>> /\ r.rtt = rtt

\* a timeout has ended a fast recovery with two segments in flight
C24_Witness ==
    /\ srvB_main # <<>> /\ srvB_main.pc = "loop"
    /\ srvB.cwnd = MSS /\ srvB.in_slow_start /\ ~srvB.in_fast_recovery
    /\ srvB.dup_ack_count >= 3
    /\ Cardinality(DOMAIN srvB.in_flight) >= 2
    /\ srvB.in_flight[get_oldest_unacked_seq(srvB)].retx_count = 2

\* C25: a new ACK in SlowStart adds bytes_acked to cwnd and switches to
\* CongestionAvoidance iff the new cwnd >= ssthresh; a new ACK in
\* CongestionAvoidance adds MSS*bytes_acked/cwnd and stays there; no new ACK
\* brings the phase back to SlowStart.
C25_WindowGrowth ==
    [][NewAckStep =>
          LET bytes_acked == srvB'.last_ack - srvB.last_ack
          IN /\ (srvB.in_slow_start /\ ~srvB.in_fast_recovery) =>
                    /\ srvB'.cwnd = srvB.cwnd + bytes_acked
                    /\ srvB'.in_slow_start <=> ~(srvB'.cwnd >= srvB.ssthresh)
                    /\ ~srvB'.in_fast_recovery
                    /\ srvB'.ssthresh = srvB.ssthresh
             /\ (~srvB.in_slow_start /\ ~srvB.in_fast_recovery) =>
                    /\ srvB'.cwnd = srvB.cwnd + (MSS * bytes_acked) \div srvB.cwnd
                    /\ ~srvB'.in_slow_start /\ ~srvB'.in_fast_recovery
                    /\ srvB'.ssthresh = srvB.ssthresh
             /\ ~srvB.in_slow_start => ~srvB'.in_slow_start]_vars

\* slow start has ended at cwnd = ssthresh in the transfer of MaxChunks
\* full segments, where every other new ACK leaves cwnd above ssthresh
C25_Witness ==
    /\ srvB_main # <<>>
    /\ srvB.file_size = MaxChunks * MSS
    /\ ~srvB.in_slow_start /\ ~srvB.in_fast_recovery
    /\ srvB.cwnd = srvB.ssthresh
    /\ srvB.LAR > 0

\* The values appended to cwnd_log: cwnd after every new ACK, after the
\* third duplicate ACK and after a timeout.  Outside fast recovery cwnd
\* changes only where it is logged, so cwnd is the last value logged; in
\* fast recovery the last value logged is the one of the third duplicate
\* ACK, ssthresh + 3*MSS (the duplicate ACKs that inflate cwnd log nothing
\* and the first new ACK ends fast recovery).
LastLoggedCwnd ==
    IF srvB.in_fast_recovery THEN srvB.ssthresh + 3 * MSS ELSE srvB.cwnd

C27_PhaseFlagsExclusive ==
    srvB_main # <<>> => ~(srvB.in_slow_start /\ srvB.in_fast_recovery)

\* a timeout has brought the sender from fast recovery back to slow start
C27_Witness ==
    /\ srvB_main # <<>>
    /\ srvB.in_slow_start
    /\ srvB.dup_ack_count >= 3
    /\ srvB.recovery_point > 0

\* C28: variant A takes an RTT sample on a cumulative ACK only from a
\* segment that was transmitted exactly once: the segment sampled when
\* send_base advances was never fast-retransmitted.
C28_KarnsRule ==
    [][(srv # <<>> /\ srv' # <<>> /\ srv'.send_base > srv.send_base
           /\ rtt_sample_seqs(srv, srv'.send_base) # {})
       => fr.fast = 0]_vars

\* C29: variant B takes an RTT sample only when the ACK being handled is a
\* new cumulative ACK, and only from the send time of a segment that the
\* ACK acknowledges (offset below the ACK value): for every ACK the
\* receive loop can handle next, each sampled offset is below the ACK value
\* and the ACK is above last_ack.
C29_RttSampling ==
    \A packet \in netB_ack :
        LET a == parse_ackB(packet)
        IN (/\ srvB_main # <<>>
            /\ srvB_main.pc = "loop"
            /\ srvB.LAR < srvB.file_size
            /\ a.ok
            /\ a.ack_num = srvB.last_ack => srvB.dup_ack_count < MaxDupAcks)
           => \A seq \in rtt_sample_seqsB(srvB, a.ack_num, a.timestamp_echo) :
                 a.ack_num > srvB.last_ack /\ seq < a.ack_num

\* the in-flight offsets other than send_base that no SACK block covers and
\* that lie below the start of some SACK block
SackHoles(s, sack_blocks) ==
    {seq \in DOMAIN s.window :
        /\ seq # s.send_base
        /\ \E i \in 1..Len(sack_blocks) : seq < sack_blocks[i][1]
        /\ \A i \in 1..Len(sack_blocks) :
              ~(seq >= sack_blocks[i][1] /\ seq < sack_blocks[i][2])}

\* C30: when the variant A sender handles a triple-duplicate ACK that
\* carries SACK blocks, it retransmits send_base and every in-flight offset
\* in a hole, in ascending order, and nothing else: for every ACK the
\* receive thread can handle next that triggers a fast retransmission, the
\* datagrams transmitted are exactly those offsets.
C30_SelectiveRetransmit ==
    \A packet \in net_ack :
        (/\ srv # <<>>
         /\ srv_main.pc # "stopped"
         /\ fr.dups < MaxDupAcks
         /\ parse_ack(packet).sack_blocks # <<>>
         /\ receive_ack(srv, packet).fast)
        => LET out == receive_ack(srv, packet).out
               holes == SackHoles(srv, parse_ack(packet).sack_blocks)
           IN /\ {out[i].seq : i \in 1..Len(out)} = {srv.send_base} \cup holes
              /\ \A i, j \in 1..Len(out) : i < j => out[i].seq < out[j].seq

\* the offset lies inside a pair of the sender's stored SACK blocks
SackCovered(s, seq) ==
    \E i \in 1..Len(s.sack_blocks) :
        s.sack_blocks[i][1] <= seq /\ seq < s.sack_blocks[i][2]

PairsValidAgainstCum(packet) ==
    LET keep(a, b) == IF 0 < a /\ a < b /\ a >= packet.ack THEN << <<a, b>> >> ELSE <<>>
    IN keep(packet.sack[1], packet.sack[2]) \o keep(packet.sack[3], packet.sack[4])

\* C32: the SACK list decoded from an ACK datagram holds exactly those of
\* its two pairs with 0 < start < end and start >= cum.
C32_DecodeAckValidPairs ==
    (variant = "codec" /\ cli_main.pc = "parsed") =>
        \A packet \in net_ack :
            /\ srv.ack_num = packet.ack
            /\ srv.sack_blocks = PairsValidAgainstCum(packet)

\* C40: decoding the ACK datagram that create_ack_packet built from cum and
\* a list of pairs with 0 < start < end gives back cum and the first two
\* pairs in order (the empty list for the empty list); the datagram has 20
\* octets.
C40_AckCodecRoundTrip ==
    (variant = "codec" /\ cli_main.pc = "decoded") =>
        /\ srv.ok
        /\ srv.ack_num = cli.recv_base
        /\ srv.sack_blocks = SubSeq(cli.sack_blocks, 1, Min(2, Len(cli.sack_blocks)))
        /\ \A packet \in net_ack : packet.len = 20

\* a list of three pairs has been encoded and decoded
C40_Witness ==
    /\ variant = "codec" /\ cli_main.pc = "decoded"
    /\ Len(cli.sack_blocks) = 3
    /\ Len(srv.sack_blocks) = 2
    /\ cli.sack_blocks[1] # cli.sack_blocks[2]

\* C33: in every reachable state of variant A the window entry at send_base
\* is not covered by any pair of the sender's stored SACK blocks.
C33_SendBaseNeverSacked ==
    (srv # <<>> /\ srv_main # <<>> /\ srv.send_base \in DOMAIN srv.window)
        => ~SackCovered(srv, srv.send_base)

\* the segments buffered contiguously from offset at, in offset order, up to
\* the buffered EOF marker or the first gap
RECURSIVE BufferedRun(_, _)
BufferedRun(buf, at) ==
    IF at \in DOMAIN buf /\ buf[at].src = "file"
    THEN <<buf[at]>> \o BufferedRun(buf, at + buf[at].len)
    ELSE <<>>

RECURSIVE ChunksLen(_)
ChunksLen(chunks) ==
    IF chunks = <<>> THEN 0 ELSE Head(chunks).len + ChunksLen(Tail(chunks))

\* C34: when a data segment arrives at offset recv_base, one handle_packet
\* call writes it and every buffered segment contiguous with it, in offset
\* order; afterwards recv_base is the end of that run and is not a key of
\* recv_buffer, and every ACK the call emits carries the new recv_base, or
\* recv_base + 3 when the EOF marker was buffered at the end of the run.
C34_DrainInOnePass ==
    \A p \in segs :
        (variant = "A" /\ ~cli.transfer_complete
            /\ p.data.src = "file" /\ p.seq = cli.recv_base)
        => LET r == handle_packet(cli, p.seq, p.data)
               run == <<p.data>> \o BufferedRun(cli.recv_buffer, p.seq + p.data.len)
               end == p.seq + ChunksLen(run)
               eof == end \in DOMAIN cli.recv_buffer
           IN /\ r.cli.output = cli.output \o run
              /\ r.cli.recv_base = end
              /\ end \notin DOMAIN r.cli.recv_buffer
              /\ r.out # <<>>
              /\ \A i \in 1..Len(r.out) :
                    r.out[i].ack = IF eof THEN end + EOF_LEN ELSE end

\* the end of the buffered entries contiguous from offset at, up to the
\* first entry whose payload is EOF or the first gap
RECURSIVE DrainEnd(_, _)
DrainEnd(buf, at) ==
    IF at \in DOMAIN buf /\ ~IsEOF(buf[at])
    THEN DrainEnd(buf, at + buf[at].len)
    ELSE at

\* the segments whose payload is not the EOF marker
DataSegments == {p \in segs : ~IsEOF(p.data)}

\* one ACK, carrying next_expected_seq as it stands after the segment
OneAckB(p) ==
    LET r == handle_packetB(cliB, p.seq, 1, p.data)
    IN Len(r.out) = 1 /\ r.out[1].ack = r.cli.next_expected_seq

\* C35 as stated: for every non-EOF segment processed while the transfer is
\* not complete (in order, out of order or below recv_base) the receiver
\* sends exactly one ACK whose cumulative field is recv_base
\* (next_expected_seq) as it stands after the segment.
C35_OneAckPerSegment ==
    \A p \in DataSegments :
        /\ (variant = "A" /\ ~cli.transfer_complete) =>
              LET r == handle_packet(cli, p.seq, p.data)
              IN Len(r.out) = 1 /\ r.out[1].ack = r.cli.recv_base
        /\ (variant = "B" /\ cliB_main.pc = "recv") => OneAckB(p)

\* C35 as amended: the same, except that in variant A a segment at recv_base
\* whose drain reaches a buffered EOF payload completes the transfer and is
\* answered by three ACKs carrying recv_base + 3.
C35_OneAckPerSegmentUnlessEofDrained ==
    \A p \in DataSegments :
        /\ (variant = "A" /\ ~cli.transfer_complete) =>
              LET r == handle_packet(cli, p.seq, p.data)
                  end == DrainEnd(cli.recv_buffer, p.seq + p.data.len)
              IN IF p.seq = cli.recv_base /\ end \in DOMAIN cli.recv_buffer
                 THEN /\ r.cli.transfer_complete
                      /\ Len(r.out) = 3
                      /\ \A i \in 1..3 : r.out[i].ack = r.cli.recv_base + EOF_LEN
                 ELSE /\ ~r.cli.transfer_complete
                      /\ Len(r.out) = 1
                      /\ r.out[1].ack = r.cli.recv_base
        /\ (variant = "B" /\ cliB_main.pc = "recv") => OneAckB(p)

\* a drain has reached the buffered EOF: the transfer is complete and the
\* SACK blocks of the time the EOF was buffered are still stored
C35_Witness ==
    /\ variant = "A"
    /\ cli.transfer_complete
    /\ cli.recv_base > 0
    /\ cli.sack_blocks # <<>>

\* a segment below next_expected_seq can arrive at the variant B receiver
C35_WitnessB ==
    /\ variant = "B"
    /\ cliB_main.pc = "recv"
    /\ \E p \in DataSegments : p.seq < cliB.next_expected_seq

\* C36: send_base never decreases; an ACK above send_base sets send_base to
\* its value, removes every window key below the new send_base and no key
\* at or above it, and clears all duplicate-ACK counters.
C36_CumulativeAck ==
    [][(srv # <<>> /\ srv' # <<>> /\ srv_main # <<>>)
       => /\ srv'.send_base >= srv.send_base
          /\ \A packet \in net_ack :
                parse_ack(packet).ack_num > srv.send_base
                => receive_ack(srv, packet).srv.send_base = parse_ack(packet).ack_num
          /\ srv'.send_base > srv.send_base
                => /\ \E packet \in net_ack : parse_ack(packet).ack_num = srv'.send_base
                   /\ DOMAIN srv'.window =
                         {k \in DOMAIN srv.window : k >= srv'.send_base}
                   /\ \A k \in DOMAIN srv'.window : srv'.window[k] = srv.window[k]
                   /\ srv'.dup_ack_count = EmptyMap]_vars

\* a cumulative ACK has advanced send_base to a segment still in the window
C36_Witness ==
    /\ srv # <<>> /\ srv_main # <<>>
    /\ srv.send_base > 0
    /\ srv.send_base \in DOMAIN srv.window
    /\ srv.dup_ack_count = EmptyMap
    /\ fr = FrInit

\* C37: a variant A ACK whose cumulative value is below send_base replaces
\* sack_blocks and nothing else: every other sender field keeps its value,
\* no RTT sample is taken and no datagram is sent.
C37_StaleAckFrame ==
    \A packet \in net_ack :
        (srv # <<>> /\ srv_main # <<>> /\ srv_main.pc # "stopped"
            /\ parse_ack(packet).ok /\ parse_ack(packet).ack_num < srv.send_base)
        => LET a == parse_ack(packet)
               r == receive_ack(srv, packet)
           IN /\ r.srv = [srv EXCEPT !.sack_blocks = a.sack_blocks]
              /\ r.out = <<>>
              /\ ~r.fast
              /\ rtt_sample_seqs(srv, a.ack_num) = {}

\* the sender has stored the SACK blocks of an ACK below send_base
C37_Witness ==
    /\ srv # <<>> /\ srv_main # <<>>
    /\ srv.sack_blocks # <<>>
    /\ srv.sack_blocks[1][1] < srv.send_base

\* C38: the variant B sender sets eof_acked only if the receiver has
\* received an EOF datagram: whenever a datagram the wait loop can receive
\* next sets eof_acked, the receiver has stopped on EOF.
C38_EofAckedOnlyAfterEof ==
    \A packet \in netB_ack :
        (srvB_main # <<>> /\ srvB_main.pc = "eof" /\ eof_acked(srvB, packet))
        => cliB_main.pc = "closed"

\* C39: in every reachable state of the variant B system where the receiver
\* has stopped on EOF, the bytes written to the sink are the file bytes
\* [0, file_size), each once and in order.
C39_StoppedImpliesFileWrittenB ==
    (srvB_main # <<>> /\ cliB_main # <<>> /\ cliB_main.pc = "closed")
        => IsFileRange(cliB.output, 0, file_data.size)

====
